---- MODULE Spec2Model ----
(***************************************************************************)
(* A model of the retrieval-augmented question-answering pipeline:         *)
(*   - the chunk assembly of services/smart_chunker.py,                     *)
(*   - the request pipeline of main.py and routes.py with the parallel     *)
(*     embedder (services/embedder.py), the ChunkStore                      *)
(*     (services/document_store.py) and the index build                     *)
(*     (services/faiss_indexer.py),                                         *)
(*   - retrieval (services/retriever.py),                                   *)
(*   - the relevance ranker and answer generation                           *)
(*     (services/answer_generator.py, services/text_preprocessor.py).       *)
(* Each subsystem has its own specification; the variables of the other    *)
(* subsystems stay at their idle values under it.                          *)
(***************************************************************************)
EXTENDS Integers, Sequences, FiniteSets, TLC

VARIABLES
    \* ---- chunk assembly (SmartChunker.create_overlapping_chunks)
    segments,              \* the argument: a sequence of token sequences
    max_tokens,            \* self.max_tokens
    overlap_tokens,        \* self.overlap_tokens
    seg_i,                 \* position of the for loop over segments
    current_chunk_tokens,  \* the running token buffer
    chunks,                \* the chunks emitted so far (as token sequences)
    chunk_pc,              \* "loop" | "returned"
    cur_carried,           \* history: tokens of the buffer seeded from the closed chunk
    cur_segs,              \* history: segments appended to the buffer since it was seeded
    carried,               \* history: cur_carried of every emitted chunk
    chunk_segs,            \* history: cur_segs of every emitted chunk
    quality_from,          \* the positions in chunks of the chunks the quality filter kept
    chunk_store,           \* the store built from the kept chunks
    document,              \* smart_chunk_text's text: paragraphs of sentences
    \* ---- request pipeline (main.run_full_pipeline, routes.bulk_answer_endpoint)
    endpoint,              \* "main" | "bulk"
    pipe_pc,               \* position in the endpoint's handler
    files,                 \* the request's artifacts that exist on disk
    extension,             \* extension of the downloaded file
    raised,                \* the exception in flight, "none" when there is none
    response,              \* HTTP status sent, "none" before
    text_chunks,           \* the chunk sequence
    doc_store,             \* DocumentStore._store: id -> chunk
    max_workers,           \* MAX_CONCURRENT_REQUESTS
    task,                  \* state of each chunk's future
    results,               \* get_embeddings' results list
    completion_order,      \* history: chunk positions in order of completion
    embeddings,            \* the list get_embeddings returned
    index,                 \* the similarity index: id -> vector
    questions_left,        \* questions of the request not yet answered
    last_hit,              \* the last search hit resolved through the store
    call_result,           \* what each get_embedding_for_chunk call ended with (history)
    \* ---- retrieval (retriever.search_index)
    search_pc,             \* position in search_index
    search_store,          \* the doc_store argument
    top_k,                 \* the top_k argument
    ids,                   \* ids[0] of index.search
    distances,             \* distances[0] of index.search
    search_raised,         \* the exception search_index raised, "none" when none
    search_results,        \* the returned list of (chunk, score)
    \* ---- relevance ranking and answer generation (answer_generator.py)
    context_chunks,        \* the context_chunks argument: a sequence of texts
    question,              \* the question argument: a text
    answer_config,         \* config.ANSWER_CONFIG
    max_chunks,            \* the max_chunks argument of filter_and_rank_chunks
    rank_pc,               \* "call" | "returned"
    ranked,                \* what filter_and_rank_chunks returned
    entry,                 \* "generate_answer" | "run_full_pipeline"
    ans_pc,                \* position in the handling of one question
    cleaned_chunks,        \* generate_answer's cleaned_chunks
    filtered_chunks,       \* generate_answer's filtered_chunks
    answer,                \* the answer returned for the question
    generation_calls,      \* the contexts handed to model.generate_content
    ans_raised,            \* the exception in flight or propagated, or "none"
    try_failed,            \* history: generate_answer's try block has raised
    \* ---- normalization of a text, character by character
    norm_text,             \* the text given to the normalizer
    norm_once,             \* its normal form
    norm_twice,            \* the normal form of its normal form
    norm_pc,               \* "call" | "once" | "twice"
    \* ---- the quality filter of the chunker
    quality_in,            \* the chunks given to the filter: a sequence of texts
    noise_verdicts,        \* is_noise_chunk of every chunk
    quality_out,           \* what filter_low_quality_chunks returned
    quality_pc,            \* "call" | "classified" | "filtered"
    \* ---- one call of calculate_relevance_score
    scored_chunk,          \* the chunk argument: a text
    scored_question,       \* the question argument: a text
    score,                 \* the score returned, a rational <<n, d>>
    score_pc,              \* "call" | "returned"
    \* ---- the sentences of a paragraph
    split_paragraph,       \* the paragraph: a sequence of written words
    split_sentences,       \* the sentences the splitter returned
    split_pc,              \* "call" | "returned"
    \* ---- a chunk cleaned twice
    reclean_text,          \* the text given to clean_chunk
    reclean_once,          \* clean_chunk of the text
    reclean_twice,         \* clean_chunk of that result
    reclean_pc             \* "call" | "once" | "twice"

chunkVars == <<segments, max_tokens, overlap_tokens, seg_i, current_chunk_tokens,
               chunks, chunk_pc, cur_carried, cur_segs, carried, chunk_segs,
               quality_from, chunk_store, document>>

pipeVars == <<endpoint, pipe_pc, files, extension, raised, response, text_chunks,
              doc_store, max_workers, task, results, completion_order, embeddings,
              index, questions_left, last_hit, call_result>>

retrVars == <<search_pc, search_store, top_k, ids, distances, search_raised,
              search_results>>

textVars == <<context_chunks, question, answer_config>>

rankVars == <<max_chunks, rank_pc, ranked>>

ansVars == <<entry, ans_pc, cleaned_chunks, filtered_chunks, answer, generation_calls,
             ans_raised, try_failed>>

normVars == <<norm_text, norm_once, norm_twice, norm_pc>>

qualityVars == <<quality_in, noise_verdicts, quality_out, quality_pc>>

scoreVars == <<scored_chunk, scored_question, score, score_pc>>

sentVars == <<split_paragraph, split_sentences, split_pc>>

recleanVars == <<reclean_text, reclean_once, reclean_twice, reclean_pc>>

vars == <<chunkVars, pipeVars, retrVars, textVars, rankVars, ansVars, normVars,
          qualityVars, scoreVars, sentVars, recleanVars>>

OthersOfChunk ==
    <<pipeVars, retrVars, textVars, rankVars, ansVars, normVars, qualityVars,
      scoreVars, sentVars, recleanVars>>
OthersOfPipe ==
    <<chunkVars, retrVars, textVars, rankVars, ansVars, normVars, qualityVars,
      scoreVars, sentVars, recleanVars>>
OthersOfRetr ==
    <<chunkVars, pipeVars, textVars, rankVars, ansVars, normVars, qualityVars,
      scoreVars, sentVars, recleanVars>>
OthersOfRank ==
    <<chunkVars, pipeVars, retrVars, ansVars, normVars, qualityVars,
      scoreVars, sentVars, recleanVars>>
OthersOfAnswer ==
    <<chunkVars, pipeVars, retrVars, rankVars, normVars, qualityVars,
      scoreVars, sentVars, recleanVars>>
OthersOfNorm ==
    <<chunkVars, pipeVars, retrVars, textVars, rankVars, ansVars, qualityVars,
      scoreVars, sentVars, recleanVars>>
OthersOfQuality ==
    <<chunkVars, pipeVars, retrVars, textVars, rankVars, ansVars, normVars,
      scoreVars, sentVars, recleanVars>>
OthersOfScore ==
    <<chunkVars, pipeVars, retrVars, textVars, rankVars, ansVars, normVars,
      qualityVars, sentVars, recleanVars>>
OthersOfSent ==
    <<chunkVars, pipeVars, retrVars, textVars, rankVars, ansVars, normVars,
      qualityVars, scoreVars, recleanVars>>
OthersOfReclean ==
    <<chunkVars, pipeVars, retrVars, textVars, rankVars, ansVars, normVars,
      qualityVars, scoreVars, sentVars>>

----------------------------------------------------------------------------
(* Helpers *)

\* All sequences over S of length lo..hi.
SeqsOf(S, lo, hi) == UNION {[1..n -> S] : n \in lo..hi}

Min(a, b) == IF a <= b THEN a ELSE b

----------------------------------------------------------------------------
(* Chunk assembly: services/smart_chunker.py                                *)

MaxSegments == 3
MaxSegmentTokens == 4
MaxMaxTokens == 4
MaxOverlapTokens == 2

\* tokenize_text(" ")[0]: the token appended between segments of one chunk.
SpaceToken == <<0, 0>>

\* tokenize_text(segment): the token ids of a segment. Token <<k, p>> is the
\* p-th token of the k-th segment, so every token names where it came from.
tokenize_text(k, n) == [p \in 1..n |-> <<k, p>>]

\* The segment sequences handed to create_overlapping_chunks: every segment
\* split_by_semantic_boundaries emits is a non-empty stripped string, so it has
\* at least one token.
SegmentInputs ==
    {[k \in 1..Len(lens) |-> tokenize_text(k, lens[k])] :
        lens \in SeqsOf(1..MaxSegmentTokens, 0, MaxSegments)}

\* line 99: current chunk + new segment exceeds max tokens
ExceedsMax(cur, seg, max) == Len(cur) + Len(seg) > max

\* lines 106-110: the tokens the next buffer is seeded with
OverlapSeedWide(cur, overlap) ==
    IF Len(cur) > overlap
    THEN SubSeq(cur, Len(cur) - overlap, Len(cur))
    ELSE <<>>

OverlapSeed(cur, overlap) ==
    IF Len(cur) > overlap
    THEN SubSeq(cur, Len(cur) - overlap + 1, Len(cur))
    ELSE <<>>

\* lines 116-118: add the segment to the current chunk
AddReplacing(cur, seg) == seg

AddToCurrent(cur, seg) ==
    (IF cur # <<>> THEN Append(cur, SpaceToken) ELSE cur) \o seg

ChunkIdle ==
    /\ segments = <<>>
    /\ max_tokens = 0
    /\ overlap_tokens = 0
    /\ seg_i = 0
    /\ current_chunk_tokens = <<>>
    /\ chunks = <<>>
    /\ chunk_pc = "idle"
    /\ cur_carried = 0
    /\ cur_segs = {}
    /\ carried = <<>>
    /\ chunk_segs = <<>>
    /\ quality_from = <<>>
    /\ chunk_store = <<>>
    /\ document = <<>>

\* lines 85-93: the call, with chunks = [] and current_chunk_tokens = []
ChunkInit ==
    /\ segments \in SegmentInputs
    /\ max_tokens \in 1..MaxMaxTokens
    /\ overlap_tokens \in 0..MaxOverlapTokens
    /\ seg_i = 1
    /\ current_chunk_tokens = <<>>
    /\ chunks = <<>>
    /\ chunk_pc = "loop"
    /\ cur_carried = 0
    /\ cur_segs = {}
    /\ carried = <<>>
    /\ chunk_segs = <<>>
    /\ quality_from = <<>>
    /\ chunk_store = <<>>
    /\ document = <<>>

\* lines 95-118: one iteration of the loop over the segments
ChunkSegment ==
    /\ chunk_pc = "loop"
    /\ seg_i <= Len(segments)
    /\ LET segment_tokens == segments[seg_i]
           seed == OverlapSeed(current_chunk_tokens, overlap_tokens)
       IN IF ExceedsMax(current_chunk_tokens, segment_tokens, max_tokens)
          THEN IF current_chunk_tokens # <<>>
               THEN /\ chunks' = Append(chunks, current_chunk_tokens)
                    /\ carried' = Append(carried, cur_carried)
                    /\ chunk_segs' = Append(chunk_segs, cur_segs)
                    /\ current_chunk_tokens' = seed \o segment_tokens
                    /\ cur_carried' = Len(seed)
                    /\ cur_segs' = {seg_i}
               ELSE /\ current_chunk_tokens' = segment_tokens
                    /\ cur_segs' = cur_segs \cup {seg_i}
                    /\ UNCHANGED <<chunks, carried, chunk_segs, cur_carried>>
          ELSE /\ current_chunk_tokens' = AddToCurrent(current_chunk_tokens, segment_tokens)
               /\ cur_segs' = cur_segs \cup {seg_i}
               /\ UNCHANGED <<chunks, carried, chunk_segs, cur_carried>>
    /\ seg_i' = seg_i + 1
    /\ UNCHANGED <<segments, max_tokens, overlap_tokens, chunk_pc, quality_from,
                   chunk_store>>
    /\ UNCHANGED document
    /\ UNCHANGED OthersOfChunk

\* lines 89-90 and 120-125: the last chunk and the return
ChunkReturn ==
    /\ chunk_pc = "loop"
    /\ seg_i > Len(segments)
    /\ IF current_chunk_tokens # <<>>
       THEN /\ chunks' = Append(chunks, current_chunk_tokens)
            /\ carried' = Append(carried, cur_carried)
            /\ chunk_segs' = Append(chunk_segs, cur_segs)
       ELSE UNCHANGED <<chunks, carried, chunk_segs>>
    /\ chunk_pc' = "returned"
    /\ UNCHANGED <<segments, max_tokens, overlap_tokens, seg_i,
                   current_chunk_tokens, cur_carried, cur_segs, quality_from,
                   chunk_store>>
    /\ UNCHANGED document
    /\ UNCHANGED OthersOfChunk

----------------------------------------------------------------------------
(* The request pipeline: main.py, routes.py, services/downloader.py,        *)
(* services/extractor.py, services/embedder.py, services/faiss_indexer.py,  *)
(* services/document_store.py                                               *)

MaxChunks == 3
MaxWorkers == 2
MaxQuestions == 2

\* faiss_indexer.py line 9: EMBEDDING_DIMENSIONS, default 768
DIMENSIONS == 768

\* The dimensionalities an embedding model may answer with: the configured
\* one and another.
EmbeddingDims == {DIMENSIONS, DIMENSIONS + 1}

\* downloader.py lines 14-19
ALLOWED_EXTENSIONS == {".pdf", ".docx", ".eml", ".txt"}

\* extractor.py lines 97-101: the keys of the dispatch table
EXTRACTORS == {".pdf", ".docx", ".eml"}

\* The artifacts a request may leave on disk.
DownloadedFile == "DOWNLOAD_DIR/uuid.ext"
RunTempDir == "run_temp_dir"
TempDoc == "run_temp_dir/uuid.ext"
TempIndex == "run_temp_dir/document.index"

\* The text of the chunk at position i of the chunk sequence (positions from 0);
\* the texts of one document's chunks differ.
ChunkText(i) == "chunk_" \o ToString(i)

\* Python's None in the results list, and a vector computed from chunk c.
None == [ok |-> FALSE, of |-> "", dim |-> 0]
Vector(c, d) == [ok |-> TRUE, of |-> c, dim |-> d]

\* document_store.py lines 9-11: ids are the chunks' positions, from 0
DocumentStore(cs) == [id \in 0..(Len(cs) - 1) |-> cs[id + 1]]

\* document_store.py lines 13-15: a missing id resolves to ""
get_by_ids(store, id_list) ==
    [k \in 1..Len(id_list) |->
        IF id_list[k] \in DOMAIN store THEN store[id_list[k]] ELSE ""]

\* embedder.py lines 67-75: results[index] = future.result(), or None
RecordResultNextFree(res, idx, value) ==
    LET free == {k \in 1..Len(res) : res[k] = None}
        slot == CHOOSE k \in free : \A j \in free : k <= j
    IN [res EXCEPT ![slot] = value]

RecordResult(res, idx, value) == [res EXCEPT ![idx] = value]

\* embedder.py lines 34-36: whatever the embedding client raises leaves the
\* call as an EmbeddingError
CallRaises == "EmbeddingError"

\* embedder.py line 71: the except clause of the as_completed loop
CaughtNothing(exc) == FALSE

Caught(exc) == exc = "EmbeddingError"

\* embedder.py line 78: [res for res in results if res is not None]
FilterFailed(res) == SelectSeq(res, LAMBDA r : r # None)

\* ids counted from 1
AddWithIdsFromOne(embs) == [id \in 1..Len(embs) |-> embs[id]]

\* faiss_indexer.py lines 43-45: ids = np.arange(len(embeddings)); add_with_ids
AddWithIds(embs) == [id \in 0..(Len(embs) - 1) |-> embs[id + 1]]

Running == {i \in DOMAIN task : task[i] = "running"}
Queued == {i \in DOMAIN task : task[i] = "queued"}

PipeIdle ==
    /\ endpoint = "none"
    /\ pipe_pc = "idle"
    /\ files = {}
    /\ extension = ""
    /\ raised = "none"
    /\ response = "none"
    /\ text_chunks = <<>>
    /\ doc_store = <<>>
    /\ max_workers = 0
    /\ task = <<>>
    /\ results = <<>>
    /\ completion_order = <<>>
    /\ embeddings = <<>>
    /\ index = <<>>
    /\ questions_left = 0
    /\ last_hit = <<>>
    /\ call_result = <<>>

\* A request arrives at one of the two endpoints that download a document;
\* or the stages of main.py from line 68 on are entered with the chunks of a
\* splitter that has returned, which chunker.split_text never does (SplitText).
PipeInit ==
    /\ endpoint \in {"main", "bulk"}
    /\ \/ /\ pipe_pc = IF endpoint = "main" THEN "mkdtemp" ELSE "download"
          /\ files = {}
          /\ extension = ""
       \/ /\ endpoint = "main"
          /\ pipe_pc = "submit"
          /\ files = {RunTempDir, TempDoc}
          /\ extension \in EXTRACTORS
    /\ raised = "none"
    /\ response = "none"
    /\ text_chunks = <<>>
    /\ doc_store = <<>>
    /\ max_workers = 0
    /\ task = <<>>
    /\ results = <<>>
    /\ completion_order = <<>>
    /\ embeddings = <<>>
    /\ index = <<>>
    /\ questions_left = 0
    /\ last_hit = <<>>
    /\ call_result = <<>>

\* main.py line 45
Mkdtemp ==
    /\ pipe_pc = "mkdtemp"
    /\ files' = files \cup {RunTempDir}
    /\ pipe_pc' = "download"
    /\ UNCHANGED <<endpoint, extension, raised, response, text_chunks, doc_store,
                   max_workers, task, results, completion_order, embeddings, index,
                   questions_left, last_hit>>
    /\ UNCHANGED call_result
    /\ UNCHANGED OthersOfPipe

\* downloader.py lines 69-78 and 89-91: the request fails, or the type is not
\* allowed, before the file is opened
DownloadRejected ==
    /\ pipe_pc = "download"
    /\ raised' = "DownloadError"
    /\ pipe_pc' = "except"
    /\ UNCHANGED <<endpoint, files, extension, response, text_chunks, doc_store,
                   max_workers, task, results, completion_order, embeddings, index,
                   questions_left, last_hit>>
    /\ UNCHANGED call_result
    /\ UNCHANGED OthersOfPipe

\* downloader.py lines 83-85 and 89-91: the file is opened for writing and the
\* stream breaks part-way; the except clause wraps the error, removes nothing
DownloadFailsPartway ==
    /\ pipe_pc = "download"
    /\ \E ext \in ALLOWED_EXTENSIONS : extension' = ext
    /\ files' = files \cup {DownloadedFile}
    /\ raised' = "DownloadError"
    /\ pipe_pc' = "except"
    /\ UNCHANGED <<endpoint, response, text_chunks, doc_store,
                   max_workers, task, results, completion_order, embeddings, index,
                   questions_left, last_hit>>
    /\ UNCHANGED call_result
    /\ UNCHANGED OthersOfPipe

\* downloader.py lines 69-87: the file is written and its path returned
DownloadOk ==
    /\ pipe_pc = "download"
    /\ \E ext \in ALLOWED_EXTENSIONS : extension' = ext
    /\ files' = files \cup {DownloadedFile}
    /\ pipe_pc' = IF endpoint = "main" THEN "move" ELSE "extract"
    /\ UNCHANGED <<endpoint, raised, response, text_chunks, doc_store,
                   max_workers, task, results, completion_order, embeddings, index,
                   questions_left, last_hit>>
    /\ UNCHANGED call_result
    /\ UNCHANGED OthersOfPipe

\* main.py lines 55-56: shutil.move into the run's temporary directory
MoveDownloaded ==
    /\ pipe_pc = "move"
    /\ files' = (files \ {DownloadedFile}) \cup {TempDoc}
    /\ pipe_pc' = "extract"
    /\ UNCHANGED <<endpoint, extension, raised, response, text_chunks, doc_store,
                   max_workers, task, results, completion_order, embeddings, index,
                   questions_left, last_hit>>
    /\ UNCHANGED call_result
    /\ UNCHANGED OthersOfPipe

\* extractor.py lines 104-114 with main.py lines 58-62 (routes.py line 184 has
\* no emptiness check): no extractor for the extension raises ValueError; the
\* extracted text is empty or not
ExtractText ==
    /\ pipe_pc = "extract"
    /\ IF extension \notin EXTRACTORS
       THEN /\ raised' = "ValueError"
            /\ pipe_pc' = "except"
       ELSE \E empty \in BOOLEAN :
               IF empty /\ endpoint = "main"
               THEN /\ raised' = "HTTPException400"
                    /\ pipe_pc' = "except"
               ELSE /\ raised' = raised
                    /\ pipe_pc' = IF endpoint = "main" THEN "chunk" ELSE "process"
    /\ UNCHANGED <<endpoint, files, extension, response, text_chunks, doc_store,
                   max_workers, task, results, completion_order, embeddings, index,
                   questions_left, last_hit>>
    /\ UNCHANGED call_result
    /\ UNCHANGED OthersOfPipe

\* main.py line 64 with chunker.py lines 42-43: re.split compiles a pattern
\* whose look-behind (?<!\b(?:Dr|Mr|Mrs|...)) has alternatives of different
\* widths, which re rejects with re.error for every text
SplitText ==
    /\ pipe_pc = "chunk"
    /\ raised' = "re.error"
    /\ pipe_pc' = "except"
    /\ UNCHANGED <<endpoint, files, extension, response, text_chunks, doc_store,
                   max_workers, task, results, completion_order, embeddings, index,
                   questions_left, last_hit>>
    /\ UNCHANGED call_result
    /\ UNCHANGED OthersOfPipe

\* main.py lines 68-71 and embedder.py lines 51-59: the store is built from
\* the n chunks of the text and every chunk's call is submitted
SplitAndSubmit ==
    /\ pipe_pc = "submit"
    /\ \E n \in 0..MaxChunks :
          /\ text_chunks' = [i \in 1..n |-> ChunkText(i - 1)]
          /\ doc_store' = DocumentStore([i \in 1..n |-> ChunkText(i - 1)])
          /\ task' = [i \in 1..n |-> "queued"]
          /\ results' = [i \in 1..n |-> None]
          /\ call_result' = [i \in 1..n |-> None]
    /\ \E w \in 1..MaxWorkers : max_workers' = w
    /\ pipe_pc' = "embed"
    /\ UNCHANGED <<endpoint, files, extension, raised, response,
                   completion_order, embeddings, index, questions_left, last_hit>>
    /\ UNCHANGED OthersOfPipe

WorkerAlwaysFree(running, cap) == TRUE

\* embedder.py line 55: ThreadPoolExecutor(max_workers=MAX_CONCURRENT_REQUESTS)
\* runs a queued call only on a worker that is not running one
WorkerFree(running, cap) == Cardinality(running) < cap

\* embedder.py line 55: a free worker of the pool takes the next queued call
EmbedStart ==
    /\ pipe_pc = "embed"
    /\ WorkerFree(Running, max_workers)
    /\ \E i \in Queued :
          /\ \A j \in Queued : i <= j
          /\ task' = [task EXCEPT ![i] = "running"]
    /\ UNCHANGED <<endpoint, pipe_pc, files, extension, raised, response, text_chunks,
                   doc_store, max_workers, results, completion_order, embeddings,
                   index, questions_left, last_hit>>
    /\ UNCHANGED call_result
    /\ UNCHANGED OthersOfPipe

\* embedder.py lines 25-36 and 62-75: a call completes, with an embedding or
\* with EmbeddingError, and the as_completed loop records it
EmbedComplete ==
    /\ pipe_pc = "embed"
    /\ \E i \in Running :
          /\ \E value \in {None} \cup {Vector(text_chunks[i], d) : d \in EmbeddingDims} :
                /\ call_result' = [call_result EXCEPT ![i] = value]
                /\ IF value = None /\ ~Caught(CallRaises)
                   THEN /\ raised' = CallRaises
                        /\ pipe_pc' = "except"
                        /\ results' = results
                   ELSE /\ results' = RecordResult(results, i, value)
                        /\ raised' = raised
                        /\ pipe_pc' = pipe_pc
          /\ task' = [task EXCEPT ![i] = "done"]
          /\ completion_order' = Append(completion_order, i)
    /\ UNCHANGED <<endpoint, files, extension, response, text_chunks,
                   doc_store, max_workers, embeddings, index, questions_left, last_hit>>
    /\ UNCHANGED OthersOfPipe

\* embedder.py line 78 and main.py lines 72-75
EmbedReturn ==
    /\ pipe_pc = "embed"
    /\ \A i \in DOMAIN task : task[i] = "done"
    /\ embeddings' = FilterFailed(results)
    /\ IF FilterFailed(results) = <<>>
       THEN /\ raised' = "HTTPException500"
            /\ pipe_pc' = "except"
       ELSE /\ raised' = raised
            /\ pipe_pc' = "build_index"
    /\ UNCHANGED <<endpoint, files, extension, response, text_chunks, doc_store,
                   max_workers, task, results, completion_order, index,
                   questions_left, last_hit>>
    /\ UNCHANGED call_result
    /\ UNCHANGED OthersOfPipe

HomogeneousAlways(embs) == TRUE

\* faiss_indexer.py line 31: np.array(embeddings).astype("float32") makes a
\* matrix of lists of one length only; lists of different lengths raise
\* ValueError
Homogeneous(embs) == \A i \in DOMAIN embs : embs[i].dim = embs[1].dim

\* faiss_indexer.py lines 21-51 and main.py lines 78-86
BuildAndSaveIndex ==
    /\ pipe_pc = "build_index"
    /\ IF embeddings[1].dim # DIMENSIONS \/ ~Homogeneous(embeddings)
       THEN /\ raised' = "ValueError"
            /\ pipe_pc' = "except"
            /\ UNCHANGED <<index, files, questions_left>>
       ELSE /\ index' = AddWithIds(embeddings)
            /\ files' = files \cup {TempIndex}
            /\ \E q \in 0..MaxQuestions : questions_left' = q
            /\ raised' = raised
            /\ pipe_pc' = "questions"
    /\ UNCHANGED <<endpoint, extension, response, text_chunks, doc_store,
                   max_workers, task, results, completion_order, embeddings, last_hit>>
    /\ UNCHANGED call_result
    /\ UNCHANGED OthersOfPipe

\* main.py lines 88-107 with retriever.py lines 33-48: a question's search
\* returns an id of the index, which is resolved through the store
AnswerQuestion ==
    /\ pipe_pc = "questions"
    /\ questions_left > 0
    /\ \E id \in DOMAIN index :
          last_hit' = [id |-> id, of |-> index[id].of,
                       chunk |-> get_by_ids(doc_store, <<id>>)[1]]
    /\ questions_left' = questions_left - 1
    /\ UNCHANGED <<endpoint, pipe_pc, files, extension, raised, response, text_chunks,
                   doc_store, max_workers, task, results, completion_order,
                   embeddings, index>>
    /\ UNCHANGED call_result
    /\ UNCHANGED OthersOfPipe

\* main.py lines 88-107: retrieval or generation raises for a question
QuestionRaises ==
    /\ pipe_pc = "questions"
    /\ questions_left > 0
    /\ raised' = "Exception"
    /\ pipe_pc' = "except"
    /\ UNCHANGED <<endpoint, files, extension, response, text_chunks, doc_store,
                   max_workers, task, results, completion_order, embeddings, index,
                   questions_left, last_hit>>
    /\ UNCHANGED call_result
    /\ UNCHANGED OthersOfPipe

\* main.py line 109
ReturnAnswers ==
    /\ pipe_pc = "questions"
    /\ questions_left = 0
    /\ response' = "200"
    /\ pipe_pc' = "finally"
    /\ UNCHANGED <<endpoint, files, extension, raised, text_chunks, doc_store,
                   max_workers, task, results, completion_order, embeddings, index,
                   questions_left, last_hit>>
    /\ UNCHANGED call_result
    /\ UNCHANGED OthersOfPipe

\* routes.py lines 187-204: chunking, embedding, indexing and the questions
\* of the bulk endpoint; any of them may raise
BulkProcess ==
    /\ pipe_pc = "process"
    /\ \E ok \in BOOLEAN :
          IF ok
          THEN /\ raised' = raised
               /\ pipe_pc' = "remove"
          ELSE /\ raised' = "Exception"
               /\ pipe_pc' = "except"
    /\ UNCHANGED <<endpoint, files, extension, response, text_chunks, doc_store,
                   max_workers, task, results, completion_order, embeddings, index,
                   questions_left, last_hit>>
    /\ UNCHANGED call_result
    /\ UNCHANGED OthersOfPipe

\* routes.py lines 206-208: os.remove(local_path) and the return
BulkRemoveAndReturn ==
    /\ pipe_pc = "remove"
    /\ files' = files \ {DownloadedFile}
    /\ response' = "200"
    /\ pipe_pc' = "done"
    /\ UNCHANGED <<endpoint, extension, raised, text_chunks, doc_store,
                   max_workers, task, results, completion_order, embeddings, index,
                   questions_left, last_hit>>
    /\ UNCHANGED call_result
    /\ UNCHANGED OthersOfPipe

\* main.py lines 111-114 and routes.py lines 210-211: every exception becomes
\* HTTP 500
ExceptHandler ==
    /\ pipe_pc = "except"
    /\ response' = "500"
    /\ pipe_pc' = IF endpoint = "main" THEN "finally" ELSE "done"
    /\ UNCHANGED <<endpoint, files, extension, raised, text_chunks, doc_store,
                   max_workers, task, results, completion_order, embeddings, index,
                   questions_left, last_hit>>
    /\ UNCHANGED call_result
    /\ UNCHANGED OthersOfPipe

\* main.py lines 115-119: shutil.rmtree(run_temp_dir)
FinallyCleanup ==
    /\ pipe_pc = "finally"
    /\ files' = files \ {RunTempDir, TempDoc, TempIndex}
    /\ pipe_pc' = "done"
    /\ UNCHANGED <<endpoint, extension, raised, response, text_chunks, doc_store,
                   max_workers, task, results, completion_order, embeddings, index,
                   questions_left, last_hit>>
    /\ UNCHANGED call_result
    /\ UNCHANGED OthersOfPipe

----------------------------------------------------------------------------
(* Retrieval: services/retriever.py                                         *)

MaxTopK == 3
MaxDistance == 2

\* The id the index returns where it has no neighbour.
Sentinel == 0 - 1

\* The distance the index returns beside the sentinel: larger than any other.
Inf == MaxDistance + 1

\* What index.search may return for top_k neighbours over a store of n chunks:
\* top_k ids, each the sentinel or an id of the index, no id twice, and a
\* distance for each, Inf beside the sentinel.
SearchAnswers(n, k) ==
    {r \in [ids : [1..k -> {Sentinel} \cup 0..(n - 1)], distances : [1..k -> 1..Inf]] :
        /\ \A p, q \in 1..k : (p # q /\ r.ids[p] # Sentinel) => r.ids[p] # r.ids[q]
        /\ \A p \in 1..k : (r.ids[p] = Sentinel) <=> (r.distances[p] = Inf)}

\* line 36: [int(i) for i in ids[0] if i != -1]
RetrievedIdsPositive(result_ids) == SelectSeq(result_ids, LAMBDA i : i > 0)

RetrievedIds(result_ids) == SelectSeq(result_ids, LAMBDA i : i # Sentinel)

\* lines 43-46: for i, chunk in enumerate(retrieved_chunks): (chunk, distances[0][i])
PairWithScores(retrieved_chunks, dists) ==
    [i \in 1..Len(retrieved_chunks) |-> <<retrieved_chunks[i], dists[i]>>]

RetrIdle ==
    /\ search_pc = "idle"
    /\ search_store = <<>>
    /\ top_k = 0
    /\ ids = <<>>
    /\ distances = <<>>
    /\ search_raised = "none"
    /\ search_results = <<>>

\* lines 10-21: the call, on the store of a document of 1..MaxChunks chunks
RetrInit ==
    /\ search_pc = "embed_query"
    /\ \E n \in 1..MaxChunks :
          search_store = DocumentStore([i \in 1..n |-> ChunkText(i - 1)])
    /\ top_k \in 1..MaxTopK
    /\ ids = <<>>
    /\ distances = <<>>
    /\ search_raised = "none"
    /\ search_results = <<>>

\* line 24 with embedder.py line 78: get_embeddings([query])[0]; a failed call
\* leaves get_embeddings' list empty and [0] raises IndexError
EmbedQuery ==
    /\ search_pc = "embed_query"
    /\ \E ok \in BOOLEAN :
          IF ok
          THEN /\ search_pc' = "search"
               /\ UNCHANGED search_raised
          ELSE /\ search_pc' = "raised"
               /\ search_raised' = "IndexError"
    /\ UNCHANGED <<search_store, top_k, ids, distances, search_results>>
    /\ UNCHANGED OthersOfRetr

\* line 33: distances, ids = index.search(query_vector, top_k)
SearchIndex ==
    /\ search_pc = "search"
    /\ \E r \in SearchAnswers(Cardinality(DOMAIN search_store), top_k) :
          /\ ids' = r.ids
          /\ distances' = r.distances
    /\ search_pc' = "resolve"
    /\ UNCHANGED <<search_store, top_k, search_raised, search_results>>
    /\ UNCHANGED OthersOfRetr

\* lines 36-48: drop the sentinels, resolve through the store, pair with scores
ResolveAndReturn ==
    /\ search_pc = "resolve"
    /\ LET retrieved_ids == RetrievedIds(ids)
           retrieved_chunks == get_by_ids(search_store, retrieved_ids)
       IN search_results' = IF retrieved_ids = <<>>
                            THEN <<>>
                            ELSE PairWithScores(retrieved_chunks, distances)
    /\ search_pc' = "returned"
    /\ UNCHANGED <<search_store, top_k, ids, distances, search_raised>>
    /\ UNCHANGED OthersOfRetr

----------------------------------------------------------------------------
(* Texts. A text is a sequence of written words separated by single spaces *)
(* (a text up to the width of its whitespace, which every cleaning step    *)
(* collapses first); <<>> is the empty string. Each written word is known  *)
(* by what the regular expressions of the source see of it.                *)

\* len: characters; letters: [a-zA-Z]; digits: \d; dashdot: one of - . ,
\* toks: its \b\w+\b matches, lowercased; cap: "word" when it is [A-Z][a-z]+,
\* "end" when it is [A-Z][a-z]+ followed by punctuation; ocr: it is a character
\* outside the class clean_text keeps.
W(len, letters, digits, dashdot, toks, cap, ocr) ==
    [len |-> len, letters |-> letters, digits |-> digits, dashdot |-> dashdot,
     toks |-> toks, cap |-> cap, ocr |-> ocr]

Vocab ==
    "the" :> W(3, 3, 0, 0, <<"the">>, "none", FALSE) @@
    "apple" :> W(5, 5, 0, 0, <<"apple">>, "none", FALSE) @@
    "apple." :> W(6, 5, 0, 1, <<"apple">>, "none", FALSE) @@
    "banana" :> W(6, 6, 0, 0, <<"banana">>, "none", FALSE) @@
    "cherry" :> W(6, 6, 0, 0, <<"cherry">>, "none", FALSE) @@
    "ripe." :> W(5, 4, 0, 1, <<"ripe">>, "none", FALSE) @@
    "ripe....." :> W(9, 4, 0, 5, <<"ripe">>, "none", FALSE) @@
    "ripe..." :> W(7, 4, 0, 3, <<"ripe">>, "none", FALSE) @@
    "1234567890" :> W(10, 0, 10, 0, <<"1234567890">>, "none", FALSE) @@
    "Paris" :> W(5, 5, 0, 0, <<"paris">>, "word", FALSE) @@
    "France." :> W(7, 6, 0, 1, <<"france">>, "end", FALSE) @@
    "item2" :> W(5, 4, 1, 0, <<"item2">>, "none", FALSE) @@
    "item" :> W(4, 4, 0, 0, <<"item">>, "none", FALSE) @@
    "2" :> W(1, 0, 1, 0, <<"2">>, "none", FALSE) @@
    "Page" :> W(4, 4, 0, 0, <<"page">>, "word", FALSE) @@
    "HEADER" :> W(6, 6, 0, 0, <<"header">>, "none", FALSE) @@
    "a" :> W(1, 1, 0, 0, <<"a">>, "none", FALSE) @@
    "an" :> W(2, 2, 0, 0, <<"an">>, "none", FALSE) @@
    "is" :> W(2, 2, 0, 0, <<"is">>, "none", FALSE) @@
    "are" :> W(3, 3, 0, 0, <<"are">>, "none", FALSE) @@
    "was" :> W(3, 3, 0, 0, <<"was">>, "none", FALSE) @@
    "Apple" :> W(5, 5, 0, 0, <<"apple">>, "word", FALSE) @@
    "(fi)gs" :> W(3, 2, 0, 0, <<"(fi)gs">>, "none", FALSE) @@
    "figs" :> W(4, 4, 0, 0, <<"figs">>, "none", FALSE) @@
    "(bullet)" :> W(1, 0, 0, 0, <<>>, "none", TRUE) @@
    " " :> W(1, 0, 0, 0, <<>>, "none", FALSE)

RECURSIVE SumSeq(_)
SumSeq(s) == IF s = <<>> THEN 0 ELSE Head(s) + SumSeq(Tail(s))

RECURSIVE Flatten(_)
Flatten(ss) == IF ss = <<>> THEN <<>> ELSE Head(ss) \o Flatten(Tail(ss))

\* len(text)
TextLen(t) ==
    IF t = <<>> THEN 0
    ELSE SumSeq([i \in 1..Len(t) |-> Vocab[t[i]].len]) + Len(t) - 1

\* len(re.findall(r'[a-zA-Z]', text))
LetterCount(t) == SumSeq([i \in 1..Len(t) |-> Vocab[t[i]].letters])

\* re.findall(r'\b\w+\b', text.lower())
WordList(t) == Flatten([i \in 1..Len(t) |-> Vocab[t[i]].toks])

WordSet(t) == {WordList(t)[i] : i \in 1..Len(WordList(t))}

\* Rationals <<numerator, denominator>> with a positive denominator.
RatLess(x, y) == x[1] * y[2] < y[1] * x[2]
RatGeq(x, y) == ~RatLess(x, y)
RatEq(x, y) == x[1] * y[2] = y[1] * x[2]

\* The chunk texts and the questions the ranker is run on.
TAB == <<"apple", "banana", "cherry", "ripe.">>
TA == <<"apple", "cherry", "cherry", "ripe.">>
TB == <<"banana", "cherry", "cherry", "ripe.">>
TNone == <<"cherry", "Paris", "France.">>
TShort == <<"apple", "banana", "ripe.">>
TBullet == <<"apple", "(bullet)", "banana", "ripe.">>
TDigits == <<"1234567890", "1234567890", "ripe.">>
TLetters == <<"apple", "banana", "cherry", "apple">>
TRepeat == <<"apple", "apple", "apple", "apple", "apple", "apple.">>
TItem == <<"banana", "item2", "cherry", "ripe.">>
TLigature == <<"(fi)gs", "banana", "cherry", "ripe.">>
TParisApple == <<"Paris", "France.", "apple", "cherry", "ripe.">>
TParisBanana == <<"Paris", "France.", "cherry", "banana", "ripe.">>
TParisTwice == <<"Paris", "France.", "Paris", "France.", "apple">>
TPage == <<"Page", "1234567890">>
THeader == <<"HEADER", "HEADER", "HEADER">>
TShortest == <<"apple", "ripe.">>

\* The text s written n times over, with single spaces between
RECURSIVE Times(_, _)
Times(s, n) == IF n = 0 THEN <<>> ELSE s \o Times(s, n - 1)

TLong == Times(TAB, 5)
TLongB == Times(TA, 5)
TItemLong == Times(TItem, 5)
TRepeatLong == Times(<<"apple">>, 19) \o <<"apple.">>
TLettersLong == Times(TLetters, 5)
TTwenty == Times(<<"apple", "banana", "cherry">>, 6) \o <<"ripe.">>
TNineteen == Times(<<"apple", "banana", "cherry">>, 5) \o <<"apple", "banana", "ripe.">>

QAppleBanana == <<"apple", "banana">>
QStopWords == <<"the", "the">>
QTheAAn == <<"the", "a", "an">>
QIsAreWas == <<"is", "are", "was">>
QCapitals == <<"the", "Apple", "banana">>

Questions == {QAppleBanana, QStopWords}

----------------------------------------------------------------------------
(* The relevance ranker: services/answer_generator.py                       *)

MaxContext == 4

\* config.py lines 25-30
ANSWER_CONFIG ==
    [max_context_chunks |-> 3,
     min_relevance_threshold |-> <<1, 10>>,
     enable_advanced_filtering |-> TRUE,
     fallback_to_basic |-> TRUE]

RankCorpus == {TAB, TA, TB, TNone, TShort, TBullet, TDigits}

\* lines 26-54: "" for a blank, short or letter-poor text; else the text with
\* its whitespace collapsed and every character outside the kept class
\* replaced by a space
clean_text(text) ==
    LET stripped == SelectSeq(text, LAMBDA w : w # " ")
        replaced == [i \in 1..Len(stripped) |->
                        IF Vocab[stripped[i]].ocr THEN " " ELSE stripped[i]]
    IN IF stripped = <<>> THEN <<>>
       ELSE IF TextLen(replaced) < 20 THEN <<>>
       ELSE IF 10 * LetterCount(replaced) < 3 * TextLen(replaced) THEN <<>>
       ELSE replaced

\* line 72
StopWordsRanker ==
    {"the", "a", "an", "and", "or", "but", "in", "on", "at", "to", "for", "of",
     "with", "by", "is", "are", "was", "were", "be", "been", "have", "has", "had",
     "do", "does", "did", "will", "would", "could", "should", "may", "might",
     "must", "can", "this", "that", "these", "those"}

\* |Q & C| / |Q| in the place of the Jaccard similarity
RelevanceByCoverage(chunk, q) ==
    LET question_words == WordSet(q) \ StopWordsRanker
        chunk_words == WordSet(chunk) \ StopWordsRanker
    IN IF question_words = {} THEN <<0, 1>>
       ELSE <<Cardinality(question_words \cap chunk_words), Cardinality(question_words)>>

\* lines 56-84: Jaccard similarity of the content-word sets
calculate_relevance_score(chunk, q) ==
    LET question_words == WordSet(q) \ StopWordsRanker
        chunk_words == WordSet(chunk) \ StopWordsRanker
        intersection == Cardinality(question_words \cap chunk_words)
        union == Cardinality(question_words \cup chunk_words)
    IN IF question_words = {} THEN <<0, 1>>
       ELSE IF union > 0 THEN <<intersection, union>> ELSE <<0, 1>>

\* lines 103-107: the non-empty cleaned chunks; pos is the position of the
\* chunk in context_chunks (history)
CleanAll(cs) ==
    SelectSeq([i \in 1..Len(cs) |-> [chunk |-> clean_text(cs[i]), pos |-> i]],
              LAMBDA r : r.chunk # <<>>)

\* lines 113-116
ScoreAll(cleaned, q) ==
    [i \in 1..Len(cleaned) |->
        [chunk |-> cleaned[i].chunk, pos |-> cleaned[i].pos,
         score |-> calculate_relevance_score(cleaned[i].chunk, q)]]

\* list.sort(key=..., reverse=True) and sorted(..., reverse=True): descending
\* by score, elements of equal score in their original order
RECURSIVE InsertBeforeEqual(_, _)
InsertBeforeEqual(s, x) ==
    IF s = <<>> THEN <<x>>
    ELSE IF RatLess(x.score, Head(s).score)
         THEN <<Head(s)>> \o InsertBeforeEqual(Tail(s), x)
         ELSE <<x>> \o s

RECURSIVE InsertAfterEqual(_, _)
InsertAfterEqual(s, x) ==
    IF s = <<>> THEN <<x>>
    ELSE IF RatLess(Head(s).score, x.score)
         THEN <<x>> \o s
         ELSE <<Head(s)>> \o InsertAfterEqual(Tail(s), x)

RECURSIVE SortReverseTies(_)
SortReverseTies(s) ==
    IF s = <<>> THEN <<>>
    ELSE InsertBeforeEqual(SortReverseTies(SubSeq(s, 1, Len(s) - 1)), s[Len(s)])

RECURSIVE SortDescending(_)
SortDescending(s) ==
    IF s = <<>> THEN <<>>
    ELSE InsertAfterEqual(SortDescending(SubSeq(s, 1, Len(s) - 1)), s[Len(s)])

\* line 122: drop the chunks below min_relevance
RelevantLoose(chunk_scores, min_relevance) ==
    SelectSeq(chunk_scores, LAMBDA r : RatGeq(r.score, <<0, 1>>))

Relevant(chunk_scores, min_relevance) ==
    SelectSeq(chunk_scores, LAMBDA r : RatGeq(r.score, min_relevance))

\* line 125: relevant_chunks[:max_chunks]
TopChunks(relevant_chunks, n) == SubSeq(relevant_chunks, 1, Min(n, Len(relevant_chunks)))

\* lines 86-125
filter_and_rank_chunks(cs, q, n, config) ==
    LET cleaned == CleanAll(cs)
        chunk_scores == SortDescending(ScoreAll(cleaned, q))
    IN IF cleaned = <<>> THEN <<>>
       ELSE TopChunks(Relevant(chunk_scores, config.min_relevance_threshold), n)

TextIdle ==
    /\ context_chunks = <<>>
    /\ question = <<>>
    /\ answer_config = ANSWER_CONFIG

RankIdle ==
    /\ max_chunks = 0
    /\ rank_pc = "idle"
    /\ ranked = <<>>

\* A call of filter_and_rank_chunks; the relevance floor is the configured one
\* or one half.
RankInit ==
    /\ context_chunks \in SeqsOf(RankCorpus, 0, MaxContext)
    /\ question \in Questions
    /\ \E floor \in {ANSWER_CONFIG.min_relevance_threshold, <<1, 2>>} :
          answer_config = [ANSWER_CONFIG EXCEPT !.min_relevance_threshold = floor]
    /\ max_chunks \in 0..MaxContext
    /\ rank_pc = "call"
    /\ ranked = <<>>

\* lines 86-125
FilterAndRank ==
    /\ rank_pc = "call"
    /\ ranked' = filter_and_rank_chunks(context_chunks, question, max_chunks, answer_config)
    /\ rank_pc' = "returned"
    /\ UNCHANGED <<context_chunks, question, answer_config, max_chunks>>
    /\ UNCHANGED OthersOfRank

----------------------------------------------------------------------------
(* One call of calculate_relevance_score (services/answer_generator.py)     *)

ScoreTexts ==
    {QAppleBanana, QStopWords, QTheAAn, QIsAreWas, QCapitals, TAB, TA, TB, TNone,
     TShort, TBullet, TDigits, TItem, <<>>}

ScoreIdle ==
    /\ scored_chunk = <<>>
    /\ scored_question = <<>>
    /\ score = <<0, 1>>
    /\ score_pc = "idle"

ScoreInit ==
    /\ scored_chunk \in ScoreTexts
    /\ scored_question \in ScoreTexts
    /\ score = <<0, 1>>
    /\ score_pc = "call"

\* answer_generator.py lines 56-84
ScoreChunk ==
    /\ score_pc = "call"
    /\ score' = calculate_relevance_score(scored_chunk, scored_question)
    /\ score_pc' = "returned"
    /\ UNCHANGED <<scored_chunk, scored_question>>
    /\ UNCHANGED OthersOfScore

----------------------------------------------------------------------------
(* The quality preprocessor: services/text_preprocessor.py                  *)

\* lines 34-40
StopWordsPreprocessor ==
    StopWordsRanker \cup
    {"i", "you", "he", "she", "it", "we", "they", "me", "him", "her", "us", "them"}

\* lines 42-44: NFKD; of the written words here only the one with the fi
\* ligature has a compatibility decomposition
normalize_unicode(text) ==
    [i \in 1..Len(text) |-> IF text[i] = "(fi)gs" THEN "figs" ELSE text[i]]

\* lines 46-52: runs of blanks collapse and the ends are stripped
remove_excessive_whitespace(text) == SelectSeq(text, LAMBDA w : w # " ")

\* len(text.replace(' ', ''))
NonSpaceLen(t) == SumSeq([i \in 1..Len(t) |-> Vocab[t[i]].len])

DigitCount(t) == SumSeq([i \in 1..Len(t) |-> Vocab[t[i]].digits])

DashDotCount(t) == SumSeq([i \in 1..Len(t) |-> Vocab[t[i]].dashdot])

\* The characters of a written word that \w matches
WordChars(w) ==
    IF w = "(fi)gs" THEN 3 ELSE Vocab[w].letters + Vocab[w].digits

\* lines 54-70, for a text that remove_excessive_whitespace has been through.
\* The six patterns of lines 15-20 are matched with re.IGNORECASE, so the
\* third, [A-Z\s]{5,}, accepts every text of letters and spaces.
is_noise_chunk(t) ==
    \/ TextLen(t) < 15
    \/ LetterCount(t) + DigitCount(t) = 0
    \/ TextLen(t) >= 10 /\ DigitCount(t) + DashDotCount(t) = NonSpaceLen(t)
    \/ TextLen(t) >= 5 /\ LetterCount(t) = NonSpaceLen(t)
    \/ Len(t) = 2 /\ t[1] = "Page" /\ Vocab[t[2]].digits = Vocab[t[2]].len
    \/ Len(t) = 1 /\ Vocab[t[1]].digits = Vocab[t[1]].len
    \/ Len(t) = 1 /\ WordChars(t[1]) = 0 /\ TextLen(t) >= 3
    \/ NonSpaceLen(t) > 0 /\ 10 * LetterCount(t) < 3 * NonSpaceLen(t)

\* lines 103-106: a space goes between a lowercase letter and a digit
RepairWord(w) == IF w = "item2" THEN <<"item", "2">> ELSE <<w>>

\* lines 109-110: a run of three or more periods becomes three
CollapseWord(w) == IF w = "ripe....." THEN "ripe..." ELSE w

\* lines 87-112
clean_chunk(text) ==
    LET normal == remove_excessive_whitespace(normalize_unicode(text))
        repaired == Flatten([i \in 1..Len(normal) |-> RepairWord(normal[i])])
    IN IF normal = <<>> THEN <<>>
       ELSE IF is_noise_chunk(normal) THEN <<>>
       ELSE [i \in 1..Len(repaired) |-> CollapseWord(repaired[i])]

\* len(w) of a lowercased word
WordLen(w) == IF w = "(fi)gs" THEN 3 ELSE Len(w)

\* lines 114-137, in units of 1/(40 * total_content_words):
\* <<0, 1>> without content words, else min(density + length_bonus * 0.2, 1)
calculate_semantic_density(text) ==
    LET words == WordList(text)
        content_words ==
            SelectSeq(words, LAMBDA w : w \notin StopWordsPreprocessor /\ WordLen(w) > 2)
        unique_words == Cardinality({content_words[i] : i \in 1..Len(content_words)})
        total == Len(content_words)
        length_sum == SumSeq([i \in 1..total |-> WordLen(content_words[i])])
    IN IF total = 0 THEN <<0, 1>>
       ELSE <<Min(40 * unique_words + Min(length_sum, 8 * total), 40 * total), 40 * total>>

\* The capitalised words [A-Z][a-z]+ that follow one another from position i,
\* three at most; punctuation after a word ends the run.
RECURSIVE CapitalRun(_, _, _)
CapitalRun(t, i, n) ==
    IF i > Len(t) \/ n = 3 \/ Vocab[t[i]].cap = "none" THEN n
    ELSE IF Vocab[t[i]].cap = "end" THEN n + 1
    ELSE CapitalRun(t, i + 1, n + 1)

\* line 78: re.findall of the phrases of two or three capitalised words
RECURSIVE MultiWordPhrases(_, _)
MultiWordPhrases(t, i) ==
    IF i > Len(t) THEN {}
    ELSE LET n == CapitalRun(t, i, 0)
         IN IF n >= 2
            THEN {Flatten([k \in 1..n |-> Vocab[t[i + k - 1]].toks])}
                     \cup MultiWordPhrases(t, i + n)
            ELSE MultiWordPhrases(t, i + 1)

\* lines 72-85
extract_key_phrases(t) ==
    MultiWordPhrases(t, 1) \cup
    {Vocab[t[i]].toks : i \in {j \in 1..Len(t) :
                                  Vocab[t[j]].cap # "none" /\ Vocab[t[j]].letters >= 5}}

\* line 152: density + len(key_phrases) * 0.1
QualityScore(cleaned) ==
    LET density == calculate_semantic_density(cleaned)
        key_phrases == Cardinality(extract_key_phrases(cleaned))
    IN <<10 * density[1] + key_phrases * density[2], 10 * density[2]>>

\* lines 139-157
rank_chunks_by_quality(cs) ==
    LET kept == SelectSeq([i \in 1..Len(cs) |-> [chunk |-> clean_chunk(cs[i]), pos |-> i]],
                          LAMBDA r : r.chunk # <<>>)
    IN SortDescending([i \in 1..Len(kept) |->
                          [chunk |-> kept[i].chunk, pos |-> kept[i].pos,
                           score |-> QualityScore(kept[i].chunk)]])

\* lines 159-177
preprocess_document_chunks(cs, n) ==
    LET ranked_chunks == rank_chunks_by_quality(cs)
        quality_chunks == SelectSeq(ranked_chunks, LAMBDA r : RatGeq(r.score, <<3, 10>>))
    IN TopChunks(quality_chunks, n)

\* The texts of a list of ranked chunks
ChunksOf(rs) == [i \in 1..Len(rs) |-> rs[i].chunk]

----------------------------------------------------------------------------
(* Answering one question: answer_generator.generate_answer (the entry of   *)
(* both routes.py endpoints) and the question loop of main.run_full_pipeline *)

MaxAnswerContext == 3

AnswerCorpus == {TAB, TNone, TShort, TLetters, TRepeat, TItem, TLigature}

Refusal == "The answer is not available in the provided context."

NotMentioned == "Not mentioned in the document."

Generated == "generated answer"

AnswerConfigs ==
    {[ANSWER_CONFIG EXCEPT !.enable_advanced_filtering = a, !.fallback_to_basic = f] :
        a \in BOOLEAN, f \in BOOLEAN}

AnswerIdle ==
    /\ entry = "none"
    /\ ans_pc = "idle"
    /\ cleaned_chunks = <<>>
    /\ filtered_chunks = <<>>
    /\ answer = "none"
    /\ generation_calls = <<>>
    /\ ans_raised = "none"
    /\ try_failed = FALSE

AnswerInit ==
    /\ context_chunks \in SeqsOf(AnswerCorpus, 0, MaxAnswerContext)
    /\ question \in Questions
    /\ answer_config \in AnswerConfigs
    /\ entry \in {"generate_answer", "run_full_pipeline"}
    /\ ans_pc = IF entry = "generate_answer" THEN "try" ELSE "question"
    /\ cleaned_chunks = <<>>
    /\ filtered_chunks = <<>>
    /\ answer = "none"
    /\ generation_calls = <<>>
    /\ ans_raised = "none"
    /\ try_failed = FALSE

\* main.py lines 94-107: no context gives the default non-answer; otherwise
\* answer_generator.generate_structured_answer is looked up, an attribute that
\* services/answer_generator.py does not define
MainQuestion ==
    /\ ans_pc = "question"
    /\ IF context_chunks = <<>>
       THEN /\ answer' = NotMentioned
            /\ ans_pc' = "returned"
            /\ ans_raised' = ans_raised
       ELSE /\ ans_raised' = "AttributeError"
            /\ ans_pc' = "raised"
            /\ answer' = answer
    /\ UNCHANGED <<entry, cleaned_chunks, filtered_chunks, generation_calls>>
    /\ UNCHANGED <<context_chunks, question, answer_config>>
    /\ UNCHANGED try_failed
    /\ UNCHANGED OthersOfAnswer

\* lines 141-149
AdvancedPreprocess ==
    /\ ans_pc = "try"
    /\ answer_config.enable_advanced_filtering
    /\ cleaned_chunks' =
          ChunksOf(preprocess_document_chunks(context_chunks,
                                              answer_config.max_context_chunks))
    /\ IF cleaned_chunks' = <<>>
       THEN answer' = Refusal /\ ans_pc' = "returned"
       ELSE answer' = answer /\ ans_pc' = "rank"
    /\ UNCHANGED <<entry, filtered_chunks, generation_calls, ans_raised>>
    /\ UNCHANGED <<context_chunks, question, answer_config>>
    /\ UNCHANGED try_failed
    /\ UNCHANGED OthersOfAnswer

\* lines 151-155
AdvancedRank ==
    /\ ans_pc = "rank"
    /\ filtered_chunks' =
          ChunksOf(filter_and_rank_chunks(cleaned_chunks, question,
                                          answer_config.max_context_chunks, answer_config))
    /\ IF filtered_chunks' = <<>>
       THEN answer' = Refusal /\ ans_pc' = "returned"
       ELSE answer' = answer /\ ans_pc' = "generate"
    /\ UNCHANGED <<entry, cleaned_chunks, generation_calls, ans_raised>>
    /\ UNCHANGED <<context_chunks, question, answer_config>>
    /\ UNCHANGED try_failed
    /\ UNCHANGED OthersOfAnswer

\* lines 156-158: basic filtering only, whose result is not looked at
BasicOnly ==
    /\ ans_pc = "try"
    /\ ~answer_config.enable_advanced_filtering
    /\ filtered_chunks' =
          ChunksOf(filter_and_rank_chunks(context_chunks, question,
                                          answer_config.max_context_chunks, answer_config))
    /\ ans_pc' = "generate"
    /\ UNCHANGED <<entry, cleaned_chunks, answer, generation_calls, ans_raised>>
    /\ UNCHANGED <<context_chunks, question, answer_config>>
    /\ UNCHANGED try_failed
    /\ UNCHANGED OthersOfAnswer

\* line 160: something inside the try block raises
TryRaises ==
    /\ ans_pc \in {"try", "rank"}
    /\ ans_raised' = "Exception"
    /\ ans_pc' = "except"
    /\ UNCHANGED <<entry, cleaned_chunks, filtered_chunks, answer, generation_calls>>
    /\ UNCHANGED <<context_chunks, question, answer_config>>
    /\ try_failed' = TRUE
    /\ UNCHANGED OthersOfAnswer

FallbackContextCleaned(original, cleaned) == cleaned

\* line 164: the fallback ranks the chunks generate_answer was called with,
\* not what the failed stage left in cleaned_chunks
FallbackContext(original, cleaned) == original

\* lines 162-167
FallbackToBasic ==
    /\ ans_pc = "except"
    /\ answer_config.fallback_to_basic
    /\ filtered_chunks' =
          ChunksOf(filter_and_rank_chunks(
                       FallbackContext(context_chunks, cleaned_chunks), question,
                       answer_config.max_context_chunks, answer_config))
    /\ IF filtered_chunks' = <<>>
       THEN answer' = Refusal /\ ans_pc' = "returned"
       ELSE answer' = answer /\ ans_pc' = "generate"
    /\ ans_raised' = "none"
    /\ UNCHANGED <<entry, cleaned_chunks, generation_calls>>
    /\ UNCHANGED <<context_chunks, question, answer_config>>
    /\ UNCHANGED try_failed
    /\ UNCHANGED OthersOfAnswer

\* lines 168-169
Reraise ==
    /\ ans_pc = "except"
    /\ ~answer_config.fallback_to_basic
    /\ ans_pc' = "raised"
    /\ UNCHANGED <<entry, cleaned_chunks, filtered_chunks, answer, generation_calls,
                   ans_raised>>
    /\ UNCHANGED <<context_chunks, question, answer_config>>
    /\ UNCHANGED try_failed
    /\ UNCHANGED OthersOfAnswer

\* lines 172-198: the context is joined into the prompt and the model's text
\* is returned, which may itself be the refusal
Generate ==
    /\ ans_pc = "generate"
    /\ generation_calls' = Append(generation_calls, filtered_chunks)
    /\ answer' \in {Generated, Refusal}
    /\ ans_pc' = "returned"
    /\ UNCHANGED <<entry, cleaned_chunks, filtered_chunks, ans_raised>>
    /\ UNCHANGED <<context_chunks, question, answer_config>>
    /\ UNCHANGED try_failed
    /\ UNCHANGED OthersOfAnswer

----------------------------------------------------------------------------
(* generate_answer with more retrieved chunks than the context may hold:    *)
(* config.py gives default_top_k 5 and max_context_chunks 3                 *)

ContextCorpus == {TAB, TParisApple, TParisBanana, TParisTwice, TNone}

\* answer_generator.py lines 127-139 with the configured ANSWER_CONFIG and
\* one chunk more than max_context_chunks
ContextInit ==
    /\ context_chunks \in SeqsOf(ContextCorpus, ANSWER_CONFIG.max_context_chunks + 1,
                                 ANSWER_CONFIG.max_context_chunks + 1)
    /\ question \in Questions
    /\ answer_config = ANSWER_CONFIG
    /\ entry = "generate_answer"
    /\ ans_pc = "try"
    /\ cleaned_chunks = <<>>
    /\ filtered_chunks = <<>>
    /\ answer = "none"
    /\ generation_calls = <<>>
    /\ ans_raised = "none"
    /\ try_failed = FALSE

----------------------------------------------------------------------------
(* The Text Normalizer, character by character: the steps of                *)
(* TextPreprocessor.clean_chunk other than the noise check                  *)
(* (services/text_preprocessor.py lines 92-96 and 102-112)                  *)

MaxTextChars == 5

\* A lowercase letter, an uppercase letter, a digit, the two punctuation marks
\* the collapsing looks at, the space, the line feed and the no-break space.
LowerCase == {"a"}
UpperCase == {"B"}
Digits == {"1"}
WhiteSpace == {" ", "LF", "NBSP"}
NormChars == LowerCase \cup UpperCase \cup Digits \cup {".", "-"} \cup WhiteSpace

\* lines 42-44: NFKD; the no-break space decomposes to a space
NFKD(s) == [i \in 1..Len(s) |-> IF s[i] = "NBSP" THEN " " ELSE s[i]]

\* The length of the run of character ch that s starts with.
RECURSIVE RunLength(_, _)
RunLength(s, ch) ==
    IF s = <<>> \/ Head(s) # ch THEN 0 ELSE 1 + RunLength(Tail(s), ch)

\* re.sub(ch{least,}, ch * to, s)
RECURSIVE CollapseRuns(_, _, _, _)
CollapseRuns(s, ch, least, to) ==
    IF s = <<>> THEN <<>>
    ELSE LET n == RunLength(s, ch)
         IN IF n = 0 THEN <<Head(s)>> \o CollapseRuns(Tail(s), ch, least, to)
            ELSE [i \in 1..(IF n >= least THEN to ELSE n) |-> ch]
                     \o CollapseRuns(SubSeq(s, n + 1, Len(s)), ch, least, to)

\* str.strip()
RECURSIVE StripLeft(_)
StripLeft(s) ==
    IF s # <<>> /\ Head(s) \in WhiteSpace THEN StripLeft(Tail(s)) ELSE s

RECURSIVE StripRight(_)
StripRight(s) ==
    IF s # <<>> /\ s[Len(s)] \in WhiteSpace
    THEN StripRight(SubSeq(s, 1, Len(s) - 1))
    ELSE s

Strip(s) == StripRight(StripLeft(s))

\* lines 46-52 at the level of characters
RemoveExcessiveWhitespace(s) ==
    Strip(CollapseRuns(CollapseRuns(s, " ", 1, 1), "LF", 3, 2))

\* re.sub of a character of class P followed by one of class Q, with a space
\* put between the two
RECURSIVE SpaceBetween(_, _, _)
SpaceBetween(s, P, Q) ==
    IF Len(s) < 2 THEN s
    ELSE IF s[1] \in P /\ s[2] \in Q
         THEN <<s[1], " ", s[2]>> \o SpaceBetween(SubSeq(s, 3, Len(s)), P, Q)
         ELSE <<s[1]>> \o SpaceBetween(Tail(s), P, Q)

\* lines 103-106
RepairArtifacts(s) ==
    SpaceBetween(SpaceBetween(SpaceBetween(SpaceBetween(s, LowerCase, UpperCase),
                                           {"."}, UpperCase),
                              LowerCase, Digits),
                 Digits, LowerCase)

\* lines 109-110
CollapsePunctuation(s) == CollapseRuns(CollapseRuns(s, ".", 3, 3), "-", 3, 3)

\* The normalizer with the whitespace collapsed before the decomposition
NormalizeWhitespaceFirst(s) ==
    Strip(CollapsePunctuation(RepairArtifacts(NFKD(RemoveExcessiveWhitespace(s)))))

\* lines 92-96 and 102-112
Normalize(s) ==
    Strip(CollapsePunctuation(RepairArtifacts(RemoveExcessiveWhitespace(NFKD(s)))))

NormIdle ==
    /\ norm_text = <<>>
    /\ norm_once = <<>>
    /\ norm_twice = <<>>
    /\ norm_pc = "idle"

NormInit ==
    /\ norm_text \in SeqsOf(NormChars, 0, MaxTextChars)
    /\ norm_once = <<>>
    /\ norm_twice = <<>>
    /\ norm_pc = "call"

\* the text is normalized
NormalizeOnce ==
    /\ norm_pc = "call"
    /\ norm_once' = Normalize(norm_text)
    /\ norm_pc' = "once"
    /\ UNCHANGED <<norm_text, norm_twice>>
    /\ UNCHANGED OthersOfNorm

\* the result is normalized
NormalizeAgain ==
    /\ norm_pc = "once"
    /\ norm_twice' = Normalize(norm_once)
    /\ norm_pc' = "twice"
    /\ UNCHANGED <<norm_text, norm_once>>
    /\ UNCHANGED OthersOfNorm

----------------------------------------------------------------------------
(* The quality filter of the chunker: SmartChunker.filter_low_quality_chunks *)
(* with TextPreprocessor.is_noise_chunk                                      *)

MaxQualityChunks == 3

\* smart_chunker.py line 145
MinChunkTokens == 20

QualityCorpus ==
    {TLong, TLongB, TItemLong, TRepeatLong, TLettersLong, TTwenty, TNineteen,
     TAB, TDigits, TPage, THeader, TShortest}

\* smart_chunker.py lines 33-35: len(tokenizer.encode(text)), for an encoding
\* that gives one token to every word and to every punctuation mark
count_tokens(t) ==
    SumSeq([i \in 1..Len(t) |->
               Len(Vocab[t[i]].toks) + Vocab[t[i]].dashdot
                   + (IF Vocab[t[i]].ocr THEN 1 ELSE 0)])

\* smart_chunker.py lines 136-146, for the cleaned chunk
PassesQualityStrict(cleaned) ==
    /\ cleaned # <<>>
    /\ RatGeq(calculate_semantic_density(cleaned), <<2, 10>>)
    /\ count_tokens(cleaned) > MinChunkTokens

PassesQuality(cleaned) ==
    /\ cleaned # <<>>
    /\ RatGeq(calculate_semantic_density(cleaned), <<2, 10>>)
    /\ count_tokens(cleaned) >= MinChunkTokens

\* smart_chunker.py lines 127-150; pos is the position of the chunk in the
\* input (history)
filter_low_quality_chunks(cs) ==
    SelectSeq([i \in 1..Len(cs) |-> [chunk |-> clean_chunk(cs[i]), pos |-> i]],
              LAMBDA r : PassesQuality(r.chunk))

QualityIdle ==
    /\ quality_in = <<>>
    /\ noise_verdicts = <<>>
    /\ quality_out = <<>>
    /\ quality_pc = "idle"

QualityInit ==
    /\ quality_in \in SeqsOf(QualityCorpus, 0, MaxQualityChunks)
    /\ noise_verdicts = <<>>
    /\ quality_out = <<>>
    /\ quality_pc = "call"

\* text_preprocessor.py lines 54-70, for every chunk
ClassifyNoise ==
    /\ quality_pc = "call"
    /\ noise_verdicts' = [i \in 1..Len(quality_in) |-> is_noise_chunk(quality_in[i])]
    /\ quality_pc' = "classified"
    /\ UNCHANGED <<quality_in, quality_out>>
    /\ UNCHANGED OthersOfQuality

\* smart_chunker.py lines 127-150
FilterLowQuality ==
    /\ quality_pc = "classified"
    /\ quality_out' = filter_low_quality_chunks(quality_in)
    /\ quality_pc' = "filtered"
    /\ UNCHANGED <<quality_in, noise_verdicts>>
    /\ UNCHANGED OthersOfQuality

----------------------------------------------------------------------------
(* The chunks after the assembly: the quality filter of smart_chunk_text    *)
(* and the store built from its result                                      *)

RECURSIVE Reverse(_)
Reverse(s) == IF s = <<>> THEN <<>> ELSE Append(Reverse(Tail(s)), Head(s))

\* smart_chunker.py lines 131-150: the loop appends the chunks that pass, in
\* the order it meets them; keep is the set of positions that pass
KeptReversed(n, keep) == Reverse(SelectSeq([i \in 1..n |-> i], LAMBDA i : i \in keep))

Kept(n, keep) == SelectSeq([i \in 1..n |-> i], LAMBDA i : i \in keep)

\* smart_chunker.py lines 172-175 and document_store.py lines 9-11: some of
\* the chunks pass the quality filter and the store numbers those (what the
\* filter does to the text of a chunk it keeps is clean_chunk, below)
FilterAndStore ==
    /\ chunk_pc = "returned"
    /\ \E keep \in SUBSET (1..Len(chunks)) :
          /\ quality_from' = Kept(Len(chunks), keep)
          /\ chunk_store' =
                DocumentStore([i \in 1..Len(quality_from') |-> chunks[quality_from'[i]]])
    /\ chunk_pc' = "stored"
    /\ UNCHANGED <<segments, max_tokens, overlap_tokens, seg_i, current_chunk_tokens,
                   chunks, cur_carried, cur_segs, carried, chunk_segs>>
    /\ UNCHANGED document
    /\ UNCHANGED OthersOfChunk

----------------------------------------------------------------------------
(* From a text to its chunks: smart_chunker.py lines 45-83 and 152-175. A    *)
(* text is a sequence of paragraphs, a paragraph the sequence of the token   *)
(* counts of its sentences; token <<k, p>> is the p-th token of paragraph k. *)

\* config.py lines 8-13
CHUNKING_CONFIG == [max_tokens |-> 400, overlap_tokens |-> 50]

MaxSentences == 3

\* The token counts a sentence may have.
SentenceLengths == {25 * i : i \in 1..18}

\* The ways of writing a paragraph of n tokens as at most m sentences.
RECURSIVE Sentences(_, _)
Sentences(n, m) ==
    IF n = 0 THEN {<<>>}
    ELSE IF m = 0 THEN {}
    ELSE UNION {{<<l>> \o rest : rest \in Sentences(n - l, m - 1)} :
                    l \in {x \in SentenceLengths : x <= n}}

\* Three paragraphs of 300, 450 and 50 tokens.
Documents ==
    {<<p1, p2, <<50>>>> : p1 \in {<<300>>, <<100, 200>>},
                          p2 \in Sentences(450, MaxSentences)}

\* the tokens from..(from + n - 1) of paragraph k
TokenRange(k, from, n) == [p \in 1..n |-> <<k, from + p - 1>>]

\* lines 64, 76-77 and 80-81: the segment being packed, if it is not empty
CurrentSegment(k, from, n) == IF n > 0 THEN <<TokenRange(k, from, n)>> ELSE <<>>

PackOneSentenceEach(k, sentences, i, from, n, max) ==
    [j \in 1..Len(sentences) |->
        TokenRange(k, SumSeq(SubSeq(sentences, 1, j - 1)) + 1, sentences[j])]

\* lines 63-81: the sentences from the i-th on, with current_segment holding
\* the n tokens from position from on; joining sentences with a space adds no
\* token (count_tokens of test_segment is the sum of the sentences' counts)
RECURSIVE PackSentences(_, _, _, _, _, _)
PackSentences(k, sentences, i, from, n, max) ==
    IF i > Len(sentences) THEN CurrentSegment(k, from, n)
    ELSE IF n + sentences[i] <= max
         THEN PackSentences(k, sentences, i + 1, from, n + sentences[i], max)
         ELSE CurrentSegment(k, from, n)
                \o PackSentences(k, sentences, i + 1, from + n, sentences[i], max)

\* lines 59-60 alone: every paragraph kept as one segment
SplitParagraphsOnly(doc, max) ==
    [k \in 1..Len(doc) |-> TokenRange(k, 1, SumSeq(doc[k]))]

\* lines 45-83
split_by_semantic_boundaries(doc, max) ==
    Flatten([k \in 1..Len(doc) |->
                IF SumSeq(doc[k]) <= max
                THEN <<TokenRange(k, 1, SumSeq(doc[k]))>>
                ELSE PackSentences(k, doc[k], 1, 1, 0, max)])

\* smart_split_text, lines 178-191, with the configured sizes
EndToEndInit ==
    /\ document \in Documents
    /\ segments = <<>>
    /\ max_tokens = CHUNKING_CONFIG.max_tokens
    /\ overlap_tokens = CHUNKING_CONFIG.overlap_tokens
    /\ seg_i = 1
    /\ current_chunk_tokens = <<>>
    /\ chunks = <<>>
    /\ chunk_pc = "split"
    /\ cur_carried = 0
    /\ cur_segs = {}
    /\ carried = <<>>
    /\ chunk_segs = <<>>
    /\ quality_from = <<>>
    /\ chunk_store = <<>>

MaxSentenceTokens == 3
MaxParagraphSentences == 3

\* The paragraphs of a few short sentences.
ShortParagraphs == SeqsOf(1..MaxSentenceTokens, 1, MaxParagraphSentences)

\* smart_chunk_text, lines 152-175, on a text of one paragraph
SegmentationInit ==
    /\ \E paragraph \in ShortParagraphs : document = <<paragraph>>
    /\ segments = <<>>
    /\ max_tokens \in 1..MaxMaxTokens
    /\ overlap_tokens \in 0..MaxOverlapTokens
    /\ seg_i = 1
    /\ current_chunk_tokens = <<>>
    /\ chunks = <<>>
    /\ chunk_pc = "split"
    /\ cur_carried = 0
    /\ cur_segs = {}
    /\ carried = <<>>
    /\ chunk_segs = <<>>
    /\ quality_from = <<>>
    /\ chunk_store = <<>>

\* line 167
SplitBySemanticBoundaries ==
    /\ chunk_pc = "split"
    /\ segments' = split_by_semantic_boundaries(document, max_tokens)
    /\ chunk_pc' = "loop"
    /\ UNCHANGED <<max_tokens, overlap_tokens, seg_i, current_chunk_tokens, chunks,
                   cur_carried, cur_segs, carried, chunk_segs, quality_from,
                   chunk_store, document>>
    /\ UNCHANGED OthersOfChunk

----------------------------------------------------------------------------
(* The sentences of a paragraph: smart_chunker.py lines 63-69. A paragraph  *)
(* is a sequence of written words separated by whitespace.                  *)

MaxParagraphWords == 3

\* The written words of the paragraphs, abbreviations among them.
SentenceWords == {"Dr.", "Mr.", "e.g.", "Smith", "He", "arrived.", "left!", "Why?"}

Abbreviations == {"Dr.", "Mr.", "e.g."}

\* the words whose last character is one of . ! ?
EndsInPunctuation == {"Dr.", "Mr.", "e.g.", "arrived.", "left!", "Why?"}

\* line 63: (?<=[.!?])\s+ matches the whitespace after a word that ends in
\* . ! or ?, whatever the word is
BoundaryAfter(word) == word \in EndsInPunctuation

\* line 63: re.split(r'(?<=[.!?])\s+', paragraph), the sentence being read
\* kept in current
RECURSIVE SplitAtBoundaries(_, _)
SplitAtBoundaries(words, current) ==
    IF words = <<>> THEN (IF current = <<>> THEN <<>> ELSE <<current>>)
    ELSE IF BoundaryAfter(Head(words)) /\ Tail(words) # <<>>
         THEN <<Append(current, Head(words))>> \o SplitAtBoundaries(Tail(words), <<>>)
         ELSE SplitAtBoundaries(Tail(words), Append(current, Head(words)))

SentIdle ==
    /\ split_paragraph = <<>>
    /\ split_sentences = <<>>
    /\ split_pc = "idle"

\* line 54: a stripped, non-empty paragraph
SentInit ==
    /\ split_paragraph \in SeqsOf(SentenceWords, 1, MaxParagraphWords)
    /\ split_sentences = <<>>
    /\ split_pc = "call"

\* lines 63-69
SplitSentences ==
    /\ split_pc = "call"
    /\ split_sentences' = SplitAtBoundaries(split_paragraph, <<>>)
    /\ split_pc' = "returned"
    /\ UNCHANGED split_paragraph
    /\ UNCHANGED OthersOfSent

----------------------------------------------------------------------------
(* A chunk cleaned twice: TextPreprocessor.clean_chunk is run by the        *)
(* chunker's filter (smart_chunker.py line 135) and again, on what was      *)
(* stored, by rank_chunks_by_quality (text_preprocessor.py line 145)        *)

MaxRecleanWords == 3

RecleanWords == {"apple", "banana", "cherry", "ripe.", "ripe.....", "item2"}

RecleanIdle ==
    /\ reclean_text = <<>>
    /\ reclean_once = <<>>
    /\ reclean_twice = <<>>
    /\ reclean_pc = "idle"

RecleanInit ==
    /\ reclean_text \in SeqsOf(RecleanWords, 1, MaxRecleanWords)
    /\ reclean_once = <<>>
    /\ reclean_twice = <<>>
    /\ reclean_pc = "call"

\* smart_chunker.py line 135
CleanChunk ==
    /\ reclean_pc = "call"
    /\ reclean_once' = clean_chunk(reclean_text)
    /\ reclean_pc' = "once"
    /\ UNCHANGED <<reclean_text, reclean_twice>>
    /\ UNCHANGED OthersOfReclean

\* text_preprocessor.py line 145
CleanChunkAgain ==
    /\ reclean_pc = "once"
    /\ reclean_twice' = clean_chunk(reclean_once)
    /\ reclean_pc' = "twice"
    /\ UNCHANGED <<reclean_text, reclean_once>>
    /\ UNCHANGED OthersOfReclean

----------------------------------------------------------------------------
(* Specifications *)

InitChunk ==
    ChunkInit /\ PipeIdle /\ RetrIdle /\ TextIdle /\ RankIdle /\ AnswerIdle
        /\ NormIdle /\ QualityIdle
        /\ ScoreIdle /\ SentIdle /\ RecleanIdle

NextChunk == ChunkSegment \/ ChunkReturn \/ FilterAndStore

SpecChunk == InitChunk /\ [][NextChunk]_vars

InitEndToEnd ==
    EndToEndInit /\ PipeIdle /\ RetrIdle /\ TextIdle /\ RankIdle /\ AnswerIdle
        /\ NormIdle /\ QualityIdle
        /\ ScoreIdle /\ SentIdle /\ RecleanIdle

NextEndToEnd == SplitBySemanticBoundaries \/ ChunkSegment \/ ChunkReturn \/ FilterAndStore

SpecEndToEnd == InitEndToEnd /\ [][NextEndToEnd]_vars

InitSegmentation ==
    SegmentationInit /\ PipeIdle /\ RetrIdle /\ TextIdle /\ RankIdle /\ AnswerIdle
        /\ NormIdle /\ QualityIdle
        /\ ScoreIdle /\ SentIdle /\ RecleanIdle

NextSegmentation ==
    SplitBySemanticBoundaries \/ ChunkSegment \/ ChunkReturn \/ FilterAndStore

SpecSegmentation == InitSegmentation /\ [][NextSegmentation]_vars

InitPipe ==
    PipeInit /\ ChunkIdle /\ RetrIdle /\ TextIdle /\ RankIdle /\ AnswerIdle
        /\ NormIdle /\ QualityIdle
        /\ ScoreIdle /\ SentIdle /\ RecleanIdle

NextPipe ==
    \/ Mkdtemp
    \/ DownloadRejected
    \/ DownloadFailsPartway
    \/ DownloadOk
    \/ MoveDownloaded
    \/ ExtractText
    \/ SplitText
    \/ SplitAndSubmit
    \/ EmbedStart
    \/ EmbedComplete
    \/ EmbedReturn
    \/ BuildAndSaveIndex
    \/ AnswerQuestion
    \/ QuestionRaises
    \/ ReturnAnswers
    \/ BulkProcess
    \/ BulkRemoveAndReturn
    \/ ExceptHandler
    \/ FinallyCleanup

SpecPipe == InitPipe /\ [][NextPipe]_vars

\* The pool's workers take queued calls while there are any, and a call that
\* was started returns or raises.
SpecPipeFair == SpecPipe /\ WF_vars(EmbedStart) /\ WF_vars(EmbedComplete)

InitRetr ==
    RetrInit /\ ChunkIdle /\ PipeIdle /\ TextIdle /\ RankIdle /\ AnswerIdle
        /\ NormIdle /\ QualityIdle
        /\ ScoreIdle /\ SentIdle /\ RecleanIdle

NextRetr == EmbedQuery \/ SearchIndex \/ ResolveAndReturn

SpecRetr == InitRetr /\ [][NextRetr]_vars

InitRank ==
    RankInit /\ ChunkIdle /\ PipeIdle /\ RetrIdle /\ AnswerIdle
        /\ NormIdle /\ QualityIdle
        /\ ScoreIdle /\ SentIdle /\ RecleanIdle

NextRank == FilterAndRank

SpecRank == InitRank /\ [][NextRank]_vars

InitAnswer ==
    AnswerInit /\ ChunkIdle /\ PipeIdle /\ RetrIdle /\ RankIdle
        /\ NormIdle /\ QualityIdle
        /\ ScoreIdle /\ SentIdle /\ RecleanIdle

NextAnswer ==
    \/ MainQuestion
    \/ AdvancedPreprocess
    \/ AdvancedRank
    \/ BasicOnly
    \/ TryRaises
    \/ FallbackToBasic
    \/ Reraise
    \/ Generate

SpecAnswer == InitAnswer /\ [][NextAnswer]_vars

InitNorm ==
    NormInit /\ ChunkIdle /\ PipeIdle /\ RetrIdle /\ TextIdle /\ RankIdle /\ AnswerIdle
        /\ QualityIdle /\ ScoreIdle /\ SentIdle /\ RecleanIdle

NextNorm == NormalizeOnce \/ NormalizeAgain

SpecNorm == InitNorm /\ [][NextNorm]_vars

InitQuality ==
    QualityInit /\ ChunkIdle /\ PipeIdle /\ RetrIdle /\ TextIdle /\ RankIdle /\ AnswerIdle
        /\ NormIdle /\ ScoreIdle /\ SentIdle /\ RecleanIdle

NextQuality == ClassifyNoise \/ FilterLowQuality

SpecQuality == InitQuality /\ [][NextQuality]_vars

InitScore ==
    ScoreInit /\ ChunkIdle /\ PipeIdle /\ RetrIdle /\ TextIdle /\ RankIdle /\ AnswerIdle
        /\ NormIdle /\ QualityIdle /\ SentIdle /\ RecleanIdle

InitContext ==
    ContextInit /\ ChunkIdle /\ PipeIdle /\ RetrIdle /\ RankIdle
        /\ NormIdle /\ QualityIdle
        /\ ScoreIdle /\ SentIdle /\ RecleanIdle

NextContext ==
    \/ AdvancedPreprocess
    \/ AdvancedRank
    \/ TryRaises
    \/ FallbackToBasic
    \/ Generate

SpecContext == InitContext /\ [][NextContext]_vars

InitReclean ==
    RecleanInit /\ ChunkIdle /\ PipeIdle /\ RetrIdle /\ TextIdle /\ RankIdle
        /\ AnswerIdle /\ NormIdle /\ QualityIdle /\ ScoreIdle /\ SentIdle

NextReclean == CleanChunk \/ CleanChunkAgain

SpecReclean == InitReclean /\ [][NextReclean]_vars

InitSent ==
    SentInit /\ ChunkIdle /\ PipeIdle /\ RetrIdle /\ TextIdle /\ RankIdle /\ AnswerIdle
        /\ NormIdle /\ QualityIdle /\ ScoreIdle /\ RecleanIdle

NextSent == SplitSentences

SpecSent == InitSent /\ [][NextSent]_vars

NextScore == ScoreChunk

SpecScore == InitScore /\ [][NextScore]_vars

----------------------------------------------------------------------------
(* Claims about the chunk assembly, under SpecChunk                         *)

\* C1: every emitted chunk has at most max_tokens tokens, unless it
\* corresponds to exactly one source segment that alone exceeds max_tokens.
C1_ChunkTokenBound ==
    \A k \in 1..Len(chunks) :
        \/ Len(chunks[k]) <= max_tokens
        \/ /\ Cardinality(chunk_segs[k]) = 1
           /\ \A s \in chunk_segs[k] : Len(segments[s]) > max_tokens

\* C2: the tokens carried from the end of chunk k into the start of chunk
\* k+1 are a suffix of chunk k of length at most overlap_tokens.
C2_OverlapBound ==
    \A k \in 1..(Len(chunks) - 1) :
        LET c == carried[k + 1]
            n == Len(chunks[k])
        IN /\ c <= overlap_tokens
           /\ c <= n
           /\ c <= Len(chunks[k + 1])
           /\ SubSeq(chunks[k + 1], 1, c) = SubSeq(chunks[k], n - c + 1, n)

\* C2 witness: a second chunk was emitted that starts with carried tokens.
C2_Witness ==
    /\ Len(chunks) >= 2
    /\ carried[2] > 0
    /\ carried[2] = overlap_tokens

----------------------------------------------------------------------------
(* Claims about the request pipeline, under SpecPipe                        *)

\* C3: when a failed embedding call dropped a chunk from the batch, the id
\* under which a vector is added to the index is the store id of the chunk the
\* vector was computed from, so a search hit on that id resolves to that chunk.
C3_IndexMappingPreserved ==
    /\ \A id \in DOMAIN index :
          /\ id \in DOMAIN doc_store
          /\ doc_store[id] = index[id].of
    /\ last_hit # <<>> => last_hit.chunk = last_hit.of

\* C7: when the request has ended, on any path, none of its artifacts (the
\* downloaded file, the temporary directory, the serialized index) is left.
C7_ArtifactsRemoved == pipe_pc = "done" => files = {}

\* C10: the list get_embeddings returns holds the embeddings of the chunks in
\* the chunks' input order, whatever the order the calls completed in.
C10_InputOrder ==
    pipe_pc \in {"build_index", "questions", "except", "finally", "done"} =>
        /\ \A p \in 1..Len(embeddings) :
              /\ embeddings[p].ok
              /\ \E i \in 1..Len(text_chunks) :
                    /\ embeddings[p].of = text_chunks[i]
                    /\ results[i] = embeddings[p]
        /\ \A p, q \in 1..Len(embeddings) :
              p < q =>
                 \E i, j \in 1..Len(text_chunks) :
                    /\ i < j
                    /\ embeddings[p].of = text_chunks[i]
                    /\ embeddings[q].of = text_chunks[j]

\* C10 witness: get_embeddings returned two embeddings or more after the calls
\* completed in another order than the input's.
C10_Witness ==
    /\ pipe_pc = "build_index"
    /\ Len(embeddings) >= 2
    /\ \E p, q \in 1..Len(completion_order) :
          /\ p < q
          /\ completion_order[p] > completion_order[q]
          /\ results[completion_order[p]].ok
          /\ results[completion_order[q]].ok

----------------------------------------------------------------------------
(* Claims about retrieval, under SpecRetr                                   *)

\* The positions of the search answer that hold an id, not the sentinel.
ValidPositions == {p \in 1..Len(ids) : ids[p] # Sentinel}

\* The k-th of them, in the index's return order.
KthValid(k) ==
    CHOOSE p \in ValidPositions : Cardinality({q \in ValidPositions : q <= p}) = k

\* C4: each returned chunk is paired with the distance the index returned for
\* that chunk's own id, and the pairs are in the index's return order.
C4_OwnDistance ==
    search_pc = "returned" =>
        \A k \in 1..Len(search_results) :
            /\ k <= Cardinality(ValidPositions)
            /\ search_results[k][1] = search_store[ids[KthValid(k)]]
            /\ search_results[k][2] = distances[KthValid(k)]

\* C5: every sentinel id is discarded and exactly the chunks of the remaining
\* ids are resolved through the store, in the order the index returned them.
C5_SentinelDropped ==
    search_pc = "returned" =>
        /\ Len(search_results) = Cardinality(ValidPositions)
        /\ \A k \in 1..Len(search_results) :
              /\ ids[KthValid(k)] \in DOMAIN search_store
              /\ search_results[k][1] = search_store[ids[KthValid(k)]]

\* C23: a failed embedding call for the question does not make search_index
\* raise: the search ends by returning, with an empty result for that
\* question, so that the questions after it are still processed.
C23_QueryFailureIsolated ==
    /\ search_raised = "none"
    /\ search_pc # "raised"

\* C5 witness: the search answer was <<id, -1, id'>>, as in ids = [3, -1, 7],
\* and two chunks were resolved.
C5_Witness ==
    /\ search_pc = "returned"
    /\ Len(ids) = MaxTopK
    /\ ids[1] # Sentinel
    /\ ids[2] = Sentinel
    /\ ids[MaxTopK] # Sentinel
    /\ Len(search_results) = 2

----------------------------------------------------------------------------
(* Claims about the ranker, under SpecRank                                  *)

\* The positions of context_chunks whose cleaned text is not empty and scores
\* at least min_relevance against the question.
Qualifying ==
    {i \in 1..Len(context_chunks) :
        /\ clean_text(context_chunks[i]) # <<>>
        /\ RatGeq(calculate_relevance_score(clean_text(context_chunks[i]), question),
                  answer_config.min_relevance_threshold)}

RankedPositions == {ranked[k].pos : k \in 1..Len(ranked)}

ScoreAt(i) == calculate_relevance_score(clean_text(context_chunks[i]), question)

\* C8: the ranker returns at most max_chunks chunks, each scoring at least
\* min_relevance, in descending score order; they are the highest-scoring
\* qualifying chunks, and all qualifying ones when fewer than max_chunks qualify.
C8_CapFloorOrder ==
    rank_pc = "returned" =>
        /\ Len(ranked) <= max_chunks
        /\ Len(ranked) = Min(max_chunks, Cardinality(Qualifying))
        /\ Cardinality(RankedPositions) = Len(ranked)
        /\ RankedPositions \subseteq Qualifying
        /\ \A k \in 1..Len(ranked) :
              /\ ranked[k].chunk = clean_text(context_chunks[ranked[k].pos])
              /\ ranked[k].score = ScoreAt(ranked[k].pos)
              /\ RatGeq(ranked[k].score, answer_config.min_relevance_threshold)
        /\ \A k \in 1..(Len(ranked) - 1) : RatGeq(ranked[k].score, ranked[k + 1].score)
        /\ \A i \in Qualifying \ RankedPositions :
              \A k \in 1..Len(ranked) : RatGeq(ranked[k].score, ScoreAt(i))

\* C8 witness: more chunks qualify than max_chunks allows, with different
\* scores, and a chunk of the input is below the floor.
C8_Witness ==
    /\ rank_pc = "returned"
    /\ max_chunks = 2
    /\ Cardinality(Qualifying) = 3
    /\ Len(ranked) = 2
    /\ RatLess(ranked[2].score, ranked[1].score)
    /\ \E i \in 1..Len(context_chunks) : i \notin Qualifying

\* C9: two chunks of equal relevance score are returned in the relative order
\* they had in the input.
C9_StableTies ==
    rank_pc = "returned" =>
        \A k, m \in 1..Len(ranked) :
            (k < m /\ RatEq(ranked[k].score, ranked[m].score))
                => ranked[k].pos < ranked[m].pos

\* C9 witness: two different chunks tie and both are returned, after a chunk
\* that came later in the input and scores higher.
C9_Witness ==
    /\ rank_pc = "returned"
    /\ Len(ranked) = 3
    /\ RatLess(ranked[2].score, ranked[1].score)
    /\ RatEq(ranked[2].score, ranked[3].score)
    /\ ranked[2].chunk # ranked[3].chunk
    /\ ranked[1].pos > ranked[2].pos

\* build_and_save_index has been called with a batch that holds a vector
\* whose dimensionality is not the configured one
MismatchedBatchBuilt ==
    /\ pipe_pc \in {"questions", "except", "finally", "done"}
    /\ embeddings # <<>>
    /\ \E i \in DOMAIN embeddings : embeddings[i].dim # DIMENSIONS

\* C20: for every batch that holds a vector of a dimensionality other than
\* the configured one, wherever in the batch, build_and_save_index raises
\* before training, adding or saving: the request fails, no vector has been
\* added and no index file written; and no index ever holds a vector of
\* another dimensionality.
C20_MismatchFatal ==
    /\ MismatchedBatchBuilt =>
          /\ raised = "ValueError"
          /\ index = <<>>
          /\ TempIndex \notin files
          /\ pipe_pc # "questions"
    /\ \A id \in DOMAIN index : index[id].dim = DIMENSIONS

\* the first vector of the batch has the configured dimensionality, a later
\* one has not, and the build has raised
C20_Witness ==
    /\ MismatchedBatchBuilt
    /\ embeddings[1].dim = DIMENSIONS
    /\ raised = "ValueError"
    /\ response = "500"

----------------------------------------------------------------------------
(* Claims about the seed of a chunk, under SpecChunk                        *)

\* C21: every chunk after the first opens with the trailing overlap_tokens
\* tokens of the chunk closed before it, and with all the tokens of that
\* chunk when it has overlap_tokens tokens or fewer.
C21_SeedCarriesTrailing ==
    \A j \in 2..Len(chunks) :
        LET closed == chunks[j - 1]
            n == Min(overlap_tokens, Len(closed))
        IN /\ carried[j] = n
           /\ SubSeq(chunks[j], 1, n) = SubSeq(closed, Len(closed) - n + 1, Len(closed))

----------------------------------------------------------------------------
(* Claims about a text of three paragraphs, under SpecEndToEnd              *)

\* all the tokens of paragraph k
Paragraph(k) == TokenRange(k, 1, SumSeq(document[k]))

\* the last tokens of a chunk that the next chunk repeats
Repeated(chunk) == SubSeq(chunk, Len(chunk) - overlap_tokens + 1, Len(chunk))

\* the positions of a paragraph at which a sentence ends
SentenceEnds(sentences) ==
    {SumSeq(SubSeq(sentences, 1, i)) : i \in 1..Len(sentences)}

\* the token count of the longest run of leading sentences that has no more
\* than max tokens
LeadingTokens(sentences, max) ==
    LET fits == {e \in SentenceEnds(sentences) : e <= max}
    IN IF fits = {} THEN 0 ELSE CHOOSE e \in fits : \A f \in fits : f <= e

\* what the scenario expects of the chunks create_overlapping_chunks returns:
\* the first paragraph is the first chunk; the second paragraph is cut at the
\* end of a sentence and its two parts open two chunks, each after the
\* overlap_tokens last tokens of the chunk before; the third paragraph joins
\* the last of them if the two together have no more than max_tokens tokens,
\* and otherwise is a chunk of its own after the overlap
ScenarioExpectation ==
    /\ Len(chunks) >= 3
    /\ chunks[1] = Paragraph(1)
    /\ \E cut \in SentenceEnds(document[2]) \ {SumSeq(document[2])} :
          LET head == TokenRange(2, 1, cut)
              tail == TokenRange(2, cut + 1, SumSeq(document[2]) - cut)
              second == Repeated(chunks[1]) \o head
              third == Repeated(second) \o tail
          IN /\ chunks[2] = second
             /\ IF Len(third) + Len(Paragraph(3)) <= max_tokens
                THEN /\ Len(chunks) = 3
                     /\ chunks[3] = third \o <<SpaceToken>> \o Paragraph(3)
                ELSE /\ Len(chunks) = 4
                     /\ chunks[3] = third
                     /\ chunks[4] = Repeated(third) \o Paragraph(3)

\* the second paragraph has a sentence boundary, and its leading sentences
\* that pack into one segment do not fit into the chunk of the first paragraph
LeadingSegmentOverflows ==
    /\ Len(document[2]) >= 2
    /\ SumSeq(document[1]) + LeadingTokens(document[2], max_tokens) > max_tokens

C18_WitnessMerged ==
    /\ chunk_pc = "returned"
    /\ LeadingSegmentOverflows
    /\ Len(chunks) = 3

----------------------------------------------------------------------------
(* Claims about the segments of a paragraph, under SpecSegmentation         *)

\* the tokens of the i-th sentence of paragraph k
SentenceTokens(k, i) ==
    TokenRange(k, SumSeq(SubSeq(document[k], 1, i - 1)) + 1, document[k][i])

\* the sentence of paragraph k that begins right after position e
SentenceAfter(k, e) ==
    CHOOSE i \in 1..Len(document[k]) : SumSeq(SubSeq(document[k], 1, i - 1)) = e

\* C22: when the paragraph has more than max_tokens tokens, the segments are
\* its sentences in order, each sentence in exactly one segment; a segment
\* has no more than max_tokens tokens or is exactly one sentence; and a
\* segment other than the last is followed by a sentence that would have
\* taken it beyond max_tokens.
C22_GreedySegments ==
    (chunk_pc # "split" /\ SumSeq(document[1]) > max_tokens) =>
        /\ Flatten(segments) = Paragraph(1)
        /\ \A j \in 1..Len(segments) :
              LET seg == segments[j]
                  end == seg[Len(seg)][2]
              IN /\ seg # <<>>
                 /\ end \in SentenceEnds(document[1])
                 /\ \/ Len(seg) <= max_tokens
                    \/ \E i \in 1..Len(document[1]) : seg = SentenceTokens(1, i)
                 /\ j < Len(segments) =>
                       Len(seg) + document[1][SentenceAfter(1, end)] > max_tokens

\* a sentence longer than max_tokens stands between two segments, and the
\* first segment holds two sentences
C22_Witness ==
    /\ chunk_pc # "split"
    /\ Len(segments) = 2
    /\ Len(document[1]) = 3
    /\ Len(segments[1]) = document[1][1] + document[1][2]
    /\ Len(segments[2]) > max_tokens

----------------------------------------------------------------------------
(* Claims about the sentences of a paragraph, under SpecSent                *)

\* the sentence that holds the p-th word of the paragraph
SentenceOf(p) ==
    CHOOSE k \in 1..Len(split_sentences) :
        /\ SumSeq([j \in 1..(k - 1) |-> Len(split_sentences[j])]) < p
        /\ p <= SumSeq([j \in 1..k |-> Len(split_sentences[j])])

\* C25: the sentences are the paragraph cut after words that end in . ! or
\* ?, and never after an abbreviation: an abbreviation and the word after it
\* are in the same sentence.
C25_AbbreviationsGuarded ==
    split_pc = "returned" =>
        /\ Flatten(split_sentences) = split_paragraph
        /\ \A p \in 1..(Len(split_paragraph) - 1) :
              split_paragraph[p] \in Abbreviations => SentenceOf(p) = SentenceOf(p + 1)

----------------------------------------------------------------------------
(* Claims about answering a question, under SpecAnswer                      *)

\* C6: whenever no context chunk is left for a question, the answer returned
\* is exactly the refusal string and generation has not been called for it,
\* on every path: advanced filtering on or off, the fallback, and the
\* question loop of the main pipeline.
C6_EmptyContextRefusal ==
    (ans_pc = "returned" /\ filtered_chunks = <<>>)
        => (answer = Refusal /\ generation_calls = <<>>)

\* what the basic ranker returns for the chunks generate_answer was called with
BasicRanking ==
    ChunksOf(filter_and_rank_chunks(context_chunks, question,
                                    answer_config.max_context_chunks, answer_config))

----------------------------------------------------------------------------
(* Claims about the embedding batch, under SpecPipe                         *)

\* get_embeddings has returned or raised
BatchOver == pipe_pc # "embed" /\ \A i \in DOMAIN task : task[i] = "done"

\* C11: a failed embedding call for one chunk never aborts the batch:
\* no EmbeddingError leaves get_embeddings, and the list it returns holds the
\* embedding of every chunk whose call succeeded and no entry for a chunk
\* whose call failed.
C11_FailureIsolated ==
    /\ raised # "EmbeddingError"
    /\ BatchOver =>
          \A i \in 1..Len(text_chunks) :
             IF call_result[i].ok
             THEN \E p \in 1..Len(embeddings) : embeddings[p] = call_result[i]
             ELSE \A p \in 1..Len(embeddings) : embeddings[p].of # text_chunks[i]

\* C11 witness: get_embeddings returned after one call failed and a call that
\* completed after it succeeded.
C11_Witness ==
    /\ pipe_pc = "build_index"
    /\ \E p, q \in 1..Len(completion_order) :
          /\ p < q
          /\ ~call_result[completion_order[p]].ok
          /\ call_result[completion_order[q]].ok
          /\ \E e \in 1..Len(embeddings) : embeddings[e] = call_result[completion_order[q]]

----------------------------------------------------------------------------
(* Claims about the chunk assembly, under SpecChunk                         *)

\* The positions of chunk c after the tokens carried over from the chunk
\* before it.
OwnPositions(c) == (carried[c] + 1)..Len(chunks[c])

\* The places <<c, j>> where token t is content of chunk c itself.
PlacesOf(t) ==
    {cj \in UNION {{<<c, j>> : j \in OwnPositions(c)} : c \in 1..Len(chunks)} :
        chunks[cj[1]][cj[2]] = t}

\* C12: the chunk assembly never discards content: every token of every input
\* segment is non-overlap content of exactly one emitted chunk, and every
\* segment, one longer than max_tokens included, stands whole in a chunk.
C12_NoContentDiscarded ==
    chunk_pc = "returned" =>
        \A k \in 1..Len(segments) :
            /\ \A p \in 1..Len(segments[k]) : Cardinality(PlacesOf(<<k, p>>)) = 1
            /\ \E c \in 1..Len(chunks) :
                  \E j \in OwnPositions(c) :
                      /\ j + Len(segments[k]) - 1 <= Len(chunks[c])
                      /\ SubSeq(chunks[c], j, j + Len(segments[k]) - 1) = segments[k]

\* C12 witness: a segment longer than max_tokens arrived while the buffer
\* held another segment, and the chunks were returned with an overlap.
C12_Witness ==
    /\ chunk_pc = "returned"
    /\ Len(chunks) >= 2
    /\ \E k \in 2..Len(segments) : Len(segments[k]) > max_tokens
    /\ \E c \in 1..Len(chunks) : carried[c] > 0

\* C13: chunk order equals source order: the ids of the store number the
\* kept chunks in the order they were emitted, and when segment a precedes
\* segment b in the source, the chunk holding a does not come after the chunk
\* holding b, among the emitted chunks and among the stored ones.
C13_SourceOrder ==
    /\ \A c, e \in 1..Len(chunks) :
          \A a \in chunk_segs[c], b \in chunk_segs[e] : a < b => c <= e
    /\ chunk_pc = "stored" =>
          /\ DOMAIN chunk_store = 0..(Len(quality_from) - 1)
          /\ \A id \in DOMAIN chunk_store : chunk_store[id] = chunks[quality_from[id + 1]]
          /\ \A id, jd \in DOMAIN chunk_store :
                id < jd => quality_from[id + 1] < quality_from[jd + 1]
          /\ \A id, jd \in DOMAIN chunk_store :
                \A a \in chunk_segs[quality_from[id + 1]],
                   b \in chunk_segs[quality_from[jd + 1]] : a < b => id <= jd

\* C13 witness: three chunks were emitted, the filter dropped the middle one
\* and the store numbers the other two.
C13_Witness ==
    /\ chunk_pc = "stored"
    /\ Len(chunks) = 3
    /\ quality_from = <<1, 3>>
    /\ chunk_store[1] = chunks[3]

----------------------------------------------------------------------------
(* Claims about the Text Normalizer, under SpecNorm                         *)

\* C14: normalization is idempotent: normalizing a normalized text changes
\* nothing.
C14_NormalizeIdempotent == norm_pc = "twice" => norm_twice = norm_once

\* C14 witness: a text was normalized twice whose first normalization
\* decomposed a no-break space, collapsed whitespace and put a space between a
\* letter and a digit.
C14_Witness ==
    /\ norm_pc = "twice"
    /\ \E i \in 1..Len(norm_text) : norm_text[i] = "NBSP"
    /\ Len(norm_once) < Len(norm_text)
    /\ \E i \in 1..(Len(norm_text) - 1) : norm_text[i] = "a" /\ norm_text[i + 1] = "1"
    /\ \E i \in 1..(Len(norm_once) - 2) :
          norm_once[i] = "a" /\ norm_once[i + 1] = " " /\ norm_once[i + 2] = "1"

----------------------------------------------------------------------------
(* Claims about the quality classifier and filter, under SpecQuality        *)

\* The capital letters of a written word
UpperCount(w) ==
    IF w = "HEADER" THEN 6 ELSE IF w \in {"Paris", "France.", "Page"} THEN 1 ELSE 0

\* The noise conditions as they are listed: too short, nothing alphanumeric,
\* digits and basic punctuation only, capital letters only, a page-number
\* line, three or more non-word characters, or too few letters.
ListedNoise(t) ==
    \/ TextLen(t) < 15
    \/ LetterCount(t) + DigitCount(t) = 0
    \/ TextLen(t) >= 10 /\ DigitCount(t) + DashDotCount(t) = NonSpaceLen(t)
    \/ TextLen(t) >= 5 /\ SumSeq([i \in 1..Len(t) |-> UpperCount(t[i])]) = NonSpaceLen(t)
    \/ Len(t) = 2 /\ t[1] = "Page" /\ Vocab[t[2]].digits = Vocab[t[2]].len
    \/ Len(t) = 1 /\ WordChars(t[1]) = 0 /\ TextLen(t) >= 3
    \/ NonSpaceLen(t) > 0 /\ 10 * LetterCount(t) < 3 * NonSpaceLen(t)

\* C15: is_noise is true of a text exactly when the text is shorter than 15
\* characters, is all non-alphanumeric, is digits and basic punctuation of 10
\* characters or more, is all uppercase of 5 characters or more, is a lone
\* page-number line, is 3 or more non-word characters, or has a ratio of
\* letters to non-space characters below 0.3; it is false of every other text,
\* a lowercase sentence of real words for one.
C15_IsNoiseAsListed ==
    quality_pc # "call" =>
        \A i \in 1..Len(quality_in) : noise_verdicts[i] = ListedNoise(quality_in[i])

\* C19: the quality filter drops exactly the chunks that clean to empty, whose
\* semantic density is below the floor or that have fewer than 20 tokens: what
\* it returns are the cleaned forms of the chunks that meet all three
\* conditions, all of them, in the order of the input.
C19_QualityFilterExact ==
    quality_pc = "filtered" =>
        /\ \A k \in 1..Len(quality_out) :
              LET c == quality_out[k].chunk
              IN /\ c = clean_chunk(quality_in[quality_out[k].pos])
                 /\ c # <<>>
                 /\ ~RatLess(calculate_semantic_density(c), <<2, 10>>)
                 /\ ~(count_tokens(c) < 20)
        /\ \A i \in 1..Len(quality_in) :
              LET c == clean_chunk(quality_in[i])
              IN (c # <<>> /\ ~RatLess(calculate_semantic_density(c), <<2, 10>>)
                    /\ ~(count_tokens(c) < 20))
                    => \E k \in 1..Len(quality_out) : quality_out[k].pos = i
        /\ \A k, m \in 1..Len(quality_out) :
              k < m => quality_out[k].pos < quality_out[m].pos

\* C19 witness: of three chunks the filter kept the first, a chunk of exactly
\* 20 tokens, and the third, which it repaired, and dropped the second, whose
\* density is below the floor.
C19_Witness ==
    /\ quality_pc = "filtered"
    /\ quality_in = <<TTwenty, TRepeatLong, TItemLong>>
    /\ Len(quality_out) = 2
    /\ quality_out[1].chunk = TTwenty
    /\ count_tokens(quality_out[1].chunk) = 20
    /\ quality_out[2].pos = 3
    /\ quality_out[2].chunk # TItemLong

----------------------------------------------------------------------------
(* Claims about the relevance score, under SpecScore                        *)

\* The lowercase words of a text that are not stop words
ContentWords(t) ==
    {w \in UNION {{Vocab[t[i]].toks[k] : k \in 1..Len(Vocab[t[i]].toks)} : i \in 1..Len(t)} :
        w \notin StopWordsRanker}

\* C16: the relevance score of a chunk against a question is the Jaccard
\* similarity |Q & C| / |Q | C| of their lowercase word sets without the stop
\* words; it is 0 when the question has no content word, 1 when both have the
\* same non-empty set of content words, and always between 0 and 1.
C16_JaccardScore ==
    score_pc = "returned" =>
        LET Q == ContentWords(scored_question)
            C == ContentWords(scored_chunk)
        IN /\ score[2] > 0 /\ 0 <= score[1] /\ score[1] <= score[2]
           /\ Q = {} => score[1] = 0
           /\ Q # {} => score[1] * Cardinality(Q \cup C) = Cardinality(Q \cap C) * score[2]
           /\ (Q # {} /\ Q = C) => score[1] = score[2]

\* C16 witness: a question with capitals and a stop word was scored against a
\* chunk that shares some of its content words and has others.
C16_Witness ==
    /\ score_pc = "returned"
    /\ scored_question = QCapitals
    /\ scored_chunk = TAB
    /\ score = <<2, 4>>

----------------------------------------------------------------------------
(* Claims about the context of a generation, under SpecContext *)

\* text_preprocessor.py lines 166-171: the retrieved chunk passes the quality
\* floor (it is not noise and its quality score is at least 0.3)
PassesQualityFloor(chunk) ==
    /\ clean_chunk(chunk) # <<>>
    /\ RatGeq(QualityScore(clean_chunk(chunk)), <<3, 10>>)

\* The text a retrieved chunk has when it is put into the prompt.
ContextText(chunk) == clean_text(clean_chunk(chunk))

\* C26: the context handed to the generation holds at most max_context_chunks
\* chunks, and no retrieved chunk that passes the quality floor and is left
\* out is more relevant to the question than a chunk that is included.
C26_MostRelevantContext ==
    \A g \in 1..Len(generation_calls) :
        /\ Len(generation_calls[g]) <= answer_config.max_context_chunks
        /\ \A i \in 1..Len(context_chunks) :
              (/\ PassesQualityFloor(context_chunks[i])
               /\ ContextText(context_chunks[i]) # <<>>
               /\ \A x \in 1..Len(generation_calls[g]) :
                     generation_calls[g][x] # ContextText(context_chunks[i]))
              => \A x \in 1..Len(generation_calls[g]) :
                    ~RatLess(calculate_relevance_score(generation_calls[g][x], question),
                             calculate_relevance_score(ContextText(context_chunks[i]),
                                                       question))

----------------------------------------------------------------------------
(* Claims about cleaning a chunk twice, under SpecReclean *)

\* C27: clean_chunk(clean_chunk(T)) = clean_chunk(T) for every text T: a
\* chunk that was cleaned once is neither changed nor rejected as noise when
\* it is cleaned again.
C27_CleanChunkStable == reclean_pc = "twice" => reclean_twice = reclean_once

----------------------------------------------------------------------------
(* Claims about the response to a document without text, under SpecPipe *)

\* C28: when the extracted text is empty the request ends with HTTP 400 and
\* the detail "Failed to extract text from the document.", and that status
\* reaches the client as it was raised.
C28_EmptyTextIs400 ==
    (endpoint = "main" /\ raised = "HTTPException400"
        /\ pipe_pc \in {"finally", "done"})
        => response = "400"

----------------------------------------------------------------------------
(* Claims about the ids of the index and the keys of the store, under SpecPipe *)

\* C29: every id in the index built for a request is a key of the store of
\* that request, so a retrieved id never resolves to the placeholder "" of a
\* missing id, also when some embedding calls failed.
C29_IndexIdsAreStoreKeys ==
    /\ \A id \in DOMAIN index : id \in DOMAIN doc_store
    /\ last_hit # <<>> => last_hit.chunk # ""

\* some embedding calls failed, the index was built from the rest and a
\* question retrieved the vector with the last id
C29_Witness ==
    /\ pipe_pc = "questions"
    /\ Len(embeddings) < Len(text_chunks)
    /\ last_hit # <<>>
    /\ last_hit.id = Len(embeddings) - 1
    /\ last_hit.chunk = doc_store[last_hit.id]

----------------------------------------------------------------------------
(* Claims about the accepted file types, under SpecPipe *)

\* C30: every extension the downloader accepts is one the extractor has a
\* function for, and a download rejected for its extension has written no
\* file.
C30_AcceptedAreExtractable ==
    /\ extension \in ALLOWED_EXTENSIONS => extension \in EXTRACTORS
    /\ (raised = "DownloadError" /\ extension = "") => DownloadedFile \notin files

====
